---- MODULE Spec2Model ----
(***************************************************************************)
(* Device control plane of the N8 control center.                          *)
(*                                                                         *)
(*   Spec     the agent channel: grpc_server.py (Register, Heartbeat,      *)
(*            PullCommands, ReportResult, DeviceMonitor) together with     *)
(*            the operator's command creation of rest_api.py.              *)
(*   SpecAgent  the same channel with every operation and the clock.       *)
(*   SpecReg  the device registry of device_registration.py, with          *)
(*            register_device split at its SELECT.                         *)
(*   SpecId   generate_device_id applied to two input pairs.               *)
(***************************************************************************)
EXTENDS Integers, Sequences, FiniteSets, TLC

(***************************************************************************)
(* Bounds of the model.                                                    *)
(***************************************************************************)
MaxCommands == 2
MaxAgentCommands == 1
MaxTicks == 1

(***************************************************************************)
(* Program constants.                                                      *)
(***************************************************************************)
DEVICE_TIMEOUT == 120
PULL_LIMIT == 10

DeviceIds == {"d1", "d2"}
StreamIds == {"s1", "s2"}
AgentStreams == {"s1"}
AgentPsk == "default-secret-key"
Psks == {AgentPsk, "wrong-psk"}
NoMetadata == <<>>
AgentMetadata == {NoMetadata, [cpu_cores |-> 8]}
TickSteps == {DEVICE_TIMEOUT + 1}
\* secrets.token_urlsafe(32) draws a fresh value for each inserted row; the
\* draw made for a device's row is fixed here in advance.  "" is the empty
\* token of a failed registration.
TokenDraw == [d \in DeviceIds |-> <<"token", d>>]
Tokens == {TokenDraw[d] : d \in DeviceIds} \cup {<<"token", "">>}

\* The CommandResult messages a device may send.
ReportInputs ==
    { [success |-> TRUE, stdout |-> "out", stderr |-> "", exit_code |-> 0,
       executed_at |-> 1, duration_ms |-> 5],
      [success |-> FALSE, stdout |-> "", stderr |-> "err", exit_code |-> 1,
       executed_at |-> 2, duration_ms |-> 7] }

VARIABLES
    now,        \* the clock read by datetime.now() / func.now()
    ticks,      \* number of clock advances so far
    gdevices,   \* table devices of models.py: device_id -> row, or NoDevice
    commands,   \* table commands of models.py, in insertion order
    streams,    \* the PullCommands generators, one per stream id
    sent,       \* command index -> number of times a stream yielded it
    devices,    \* table devices of device_registration.py, in insertion order
    regs,       \* the register_device calls in progress, one per caller
    id_in,      \* the (ip_address, hostname) pairs given to generate_device_id
    id_out,     \* the device ids it returned for them
    hbs,        \* the report_heartbeat calls in progress, one per caller
    sweep,      \* the check_offline_devices call in progress
    api_keys,   \* table api_keys: credential id -> row, or NoKey
    sessions,   \* table sessions: session token -> row, or NoSession
    sret,       \* what the last SessionManager call returned
    issued,     \* credential id -> what create_api_key was given and returned
    kret,       \* what the last credential check or endpoint answered
    perm_in,    \* the (auth_info, required_permissions) given to check_permissions
    perm_out    \* what each copy of check_permissions returned for them

registryVars == <<devices, regs>>
deriveVars == <<id_in, id_out>>
liveVars == <<hbs, sweep>>
sessVars == <<api_keys, sessions, sret>>
authVars == <<issued, kret, perm_in, perm_out>>
vars == <<now, ticks, gdevices, commands, streams, sent, devices, regs, id_in, id_out,
          hbs, sweep, api_keys, sessions, sret, issued, kret, perm_in, perm_out>>

NoDevice == [status |-> "none"]
ClosedStream == [pc |-> "closed", device_id |-> "", active |-> FALSE, batch |-> <<>>]

CommandIdx == DOMAIN commands
Min(a, b) == IF a < b THEN a ELSE b

(***************************************************************************)
(* Helpers of ControlCenterService.                                        *)
(***************************************************************************)
_verify_psk(psk) == psk = AgentPsk

_hash_psk(psk) == <<"sha256", psk>>

_generate_token(device_id) == TokenDraw[device_id]

\* Mutant of _verify_token: the row is looked up by device_id alone.
_verify_token_any(device_id, token) == gdevices[device_id] # NoDevice

_verify_token(device_id, token) ==
    /\ gdevices[device_id] # NoDevice
    /\ gdevices[device_id].token = token

(***************************************************************************)
(* Register                                                                *)
(***************************************************************************)
\* Mutant of RegisterUpdate: re-registration issues another token.
RegisterUpdateRotate(row, metadata) ==
    [row EXCEPT !.metadata = metadata,
                !.status = "online",
                !.last_seen_at = now,
                !.token = <<"rotated", row.token>>]

RegisterUpdate(row, metadata) ==
    [row EXCEPT !.metadata = metadata,
                !.status = "online",
                !.last_seen_at = now]

\* RegisterResponse(success=True, token=device.token) of the row as
\* committed.
RegisterResponseToken(device_id) == gdevices'[device_id].token

RegisterInsert(device_id, psk, metadata) ==
    [status |-> "online", token |-> _generate_token(device_id), psk_hash |-> _hash_psk(psk),
     last_seen_at |-> now, metadata |-> metadata]

Register(device_id, psk, metadata) ==
    /\ _verify_psk(psk)
    /\ IF gdevices[device_id] # NoDevice
       THEN gdevices' = [gdevices EXCEPT ![device_id] =
                            RegisterUpdate(@, metadata)]
       ELSE gdevices' = [gdevices EXCEPT ![device_id] =
                            RegisterInsert(device_id, psk, metadata)]
    /\ UNCHANGED <<now, ticks, commands, streams, sent, registryVars, deriveVars, liveVars, sessVars, authVars>>

\* A wrong PSK is answered "Invalid PSK" before the store is opened.
RegisterRejected(device_id, psk) ==
    /\ ~_verify_psk(psk)
    /\ UNCHANGED vars

(***************************************************************************)
(* Heartbeat                                                               *)
(***************************************************************************)
Heartbeat(device_id, token) ==
    /\ _verify_token(device_id, token)
    /\ gdevices' = [gdevices EXCEPT ![device_id] =
                       [@ EXCEPT !.status = "online",
                                 !.last_seen_at = now]]
    /\ UNCHANGED <<now, ticks, commands, streams, sent, registryVars, deriveVars, liveVars, sessVars, authVars>>

(***************************************************************************)
(* DeviceMonitor.run.monitor_loop: one pass of the loop.                   *)
(***************************************************************************)
TimedOut(row) ==
    /\ row # NoDevice
    /\ row.status = "online"
    /\ row.last_seen_at < now - DEVICE_TIMEOUT

\* device.status = "offline" and commit: the UPDATE the session flushes sets
\* status, and last_seen_at takes its onupdate value func.now() because the
\* row's UPDATE does not name it (models.py, Device.last_seen_at).
MarkedOffline(row) == [row EXCEPT !.status = "offline", !.last_seen_at = now]

MonitorPass ==
    /\ gdevices' = [d \in DeviceIds |->
                       IF TimedOut(gdevices[d])
                       THEN MarkedOffline(gdevices[d])
                       ELSE gdevices[d]]
    /\ UNCHANGED <<now, ticks, commands, streams, sent, registryVars, deriveVars, liveVars, sessVars, authVars>>

(***************************************************************************)
(* rest_api.execute_command: the operator creates a command.               *)
(***************************************************************************)
\* Mutant of NewCommand: the row is inserted as already running.
NewCommandRunning(device_id) ==
    [command_id |-> Len(commands) + 1, device_id |-> device_id,
     status |-> "running", success |-> FALSE, stdout |-> "", stderr |-> "",
     exit_code |-> -1, executed_at |-> -1, duration_ms |-> -1]

NewCommand(device_id) ==
    [command_id |-> Len(commands) + 1, device_id |-> device_id,
     status |-> "pending", success |-> FALSE, stdout |-> "", stderr |-> "",
     exit_code |-> -1, executed_at |-> -1, duration_ms |-> -1]

execute_command(device_id) ==
    /\ gdevices[device_id] # NoDevice
    /\ gdevices[device_id].status = "online"
    /\ commands' = Append(commands, NewCommand(device_id))
    /\ sent' = Append(sent, 0)
    /\ UNCHANGED <<now, ticks, gdevices, streams, registryVars, deriveVars, liveVars, sessVars, authVars>>

\* The HTTPException of execute_command: 404 "Device not found" when no row
\* has the device_id, 400 "Device is offline" when its status is not online.
ExecuteError(device_id) ==
    IF gdevices[device_id] = NoDevice THEN 404
    ELSE IF gdevices[device_id].status # "online" THEN 400
    ELSE 200

\* execute_command raising before db.add: nothing is written.
execute_command_rejected(device_id) ==
    /\ ExecuteError(device_id) # 200
    /\ kret' = [op |-> "execute_command", device_id |-> device_id,
                status |-> ExecuteError(device_id)]
    /\ UNCHANGED <<now, ticks, gdevices, commands, streams, sent, registryVars, deriveVars,
                   liveVars, sessVars, issued, perm_in, perm_out>>

(***************************************************************************)
(* PullCommands                                                            *)
(***************************************************************************)
IsPendingFor(i, device_id) ==
    /\ commands[i].device_id = device_id
    /\ commands[i].status = "pending"

RECURSIVE PendingFrom(_, _)
\* The pending commands of device_id with index >= i, ordered by created_at
\* (rows are stamped func.now() on insert, so insertion order).
PendingFrom(i, device_id) ==
    IF i > Len(commands) THEN <<>>
    ELSE IF IsPendingFor(i, device_id)
         THEN <<i>> \o PendingFrom(i + 1, device_id)
         ELSE PendingFrom(i + 1, device_id)

\* Mutant of QueryPending: order_by(created_at.desc()), newest first.
RECURSIVE Reverse(_)
Reverse(q) == IF q = <<>> THEN <<>> ELSE Append(Reverse(Tail(q)), Head(q))

QueryPendingNewestFirst(device_id) ==
    LET all == Reverse(PendingFrom(1, device_id))
    IN SubSeq(all, 1, Min(Len(all), PULL_LIMIT))

\* Mutant of QueryPending: the limit is applied to the table before the
\* filter, so only the first ten rows are ever looked at.
QueryPendingLimitFirst(device_id) ==
    LET all == PendingFrom(1, device_id)
    IN SelectSeq(all, LAMBDA i : i <= PULL_LIMIT)

\* filter_by(device_id, status="pending").order_by(created_at).limit(10).all()
QueryPending(device_id) ==
    LET all == PendingFrom(1, device_id)
    IN SubSeq(all, 1, Min(Len(all), PULL_LIMIT))

ClaimedStatus == "running"

\* Mutant of ClaimRow: the status flip is forgotten.
ClaimRowNoFlip(cmd) == cmd

\* cmd.status = "running"; session.commit(): an UPDATE by primary key.
ClaimRow(cmd) == [cmd EXCEPT !.status = ClaimedStatus]

PullOpen(s, device_id, token) ==
    /\ streams[s].pc = "closed"
    /\ _verify_token(device_id, token)
    /\ streams' = [streams EXCEPT ![s] =
                      [pc |-> "poll", device_id |-> device_id, active |-> TRUE,
                       batch |-> <<>>]]
    /\ UNCHANGED <<now, ticks, gdevices, commands, sent, registryVars, deriveVars, liveVars, sessVars, authVars>>

\* while context.is_active(): query the batch (an empty batch falls through
\* to expire_all() and sleep, back to the loop test).
PullQuery(s) ==
    /\ streams[s].pc = "poll"
    /\ streams[s].active
    /\ LET batch == QueryPending(streams[s].device_id)
       IN streams' = [streams EXCEPT ![s].batch = batch,
                                     ![s].pc = IF batch = <<>> THEN "poll" ELSE "claim"]
    /\ UNCHANGED <<now, ticks, gdevices, commands, sent, registryVars, deriveVars, liveVars, sessVars, authVars>>

\* for cmd in commands: mark it running and commit.
PullClaim(s) ==
    /\ streams[s].pc = "claim"
    /\ LET i == Head(streams[s].batch)
       IN commands' = [commands EXCEPT ![i] = ClaimRow(@)]
    /\ streams' = [streams EXCEPT ![s].pc = "yield"]
    /\ UNCHANGED <<now, ticks, gdevices, sent, registryVars, deriveVars, liveVars, sessVars, authVars>>

\* yield pb2.Command(...): the claimed command goes out on the stream.
PullYield(s) ==
    /\ streams[s].pc = "yield"
    /\ streams[s].active
    /\ LET i == Head(streams[s].batch)
           rest == Tail(streams[s].batch)
       IN /\ sent' = [sent EXCEPT ![i] = @ + 1]
          /\ streams' = [streams EXCEPT ![s].batch = rest,
                                        ![s].pc = IF rest = <<>> THEN "poll" ELSE "claim"]
    /\ UNCHANGED <<now, ticks, gdevices, commands, registryVars, deriveVars, liveVars, sessVars, authVars>>

\* One step of the stream's loop: the query, the claim or the yield.
PullStep(s) == PullQuery(s) \/ PullClaim(s) \/ PullYield(s)

\* The caller drops the connection.
Disconnect(s) ==
    /\ streams[s].pc # "closed"
    /\ streams[s].active
    /\ streams' = [streams EXCEPT ![s].active = FALSE]
    /\ UNCHANGED <<now, ticks, gdevices, commands, sent, registryVars, deriveVars, liveVars, sessVars, authVars>>

\* The generator ends: the loop test fails, or the generator suspended at
\* yield is closed; finally: session.close().
PullClose(s) ==
    /\ streams[s].pc \in {"poll", "yield"}
    /\ ~streams[s].active
    /\ streams' = [streams EXCEPT ![s] = ClosedStream]
    /\ UNCHANGED <<now, ticks, gdevices, commands, sent, registryVars, deriveVars, liveVars, sessVars, authVars>>

(***************************************************************************)
(* ReportResult                                                            *)
(***************************************************************************)
\* Mutant of ReportedStatus: a failed command is put back in the queue.
ReportedStatusRequeue(success) == IF success THEN "completed" ELSE "pending"

ReportedStatus(success) == IF success THEN "completed" ELSE "failed"

ReportRow(cmd, r) ==
    [cmd EXCEPT !.status = ReportedStatus(r.success),
                !.success = r.success,
                !.stdout = r.stdout,
                !.stderr = r.stderr,
                !.exit_code = r.exit_code,
                !.executed_at = r.executed_at,
                !.duration_ms = r.duration_ms]

ReportResult(device_id, token, command_id, r) ==
    /\ _verify_token(device_id, token)
    /\ command_id \in CommandIdx
    /\ commands' = [commands EXCEPT ![command_id] = ReportRow(@, r)]
    /\ UNCHANGED <<now, ticks, gdevices, streams, sent, registryVars, deriveVars, liveVars, sessVars, authVars>>

(***************************************************************************)
(* The agent channel's answers to bad credentials.                         *)
(***************************************************************************)
Refused(op, device_id, message) ==
    [op |-> op, device_id |-> device_id, success |-> FALSE, message |-> message]

\* Register with a PSK that _verify_psk refuses: RegisterResponse(
\* success=False, message="Invalid PSK", token="") before the store is opened.
RegisterInvalidPsk(device_id, psk) ==
    /\ ~_verify_psk(psk)
    /\ kret' = Refused("Register", device_id, "Invalid PSK")
    /\ UNCHANGED <<now, ticks, gdevices, commands, streams, sent, registryVars, deriveVars,
                   liveVars, sessVars, issued, perm_in, perm_out>>

\* Heartbeat: HeartbeatResponse(success=False, message="Invalid token").
HeartbeatInvalidToken(device_id, token) ==
    /\ ~_verify_token(device_id, token)
    /\ kret' = Refused("Heartbeat", device_id, "Invalid token")
    /\ UNCHANGED <<now, ticks, gdevices, commands, streams, sent, registryVars, deriveVars,
                   liveVars, sessVars, issued, perm_in, perm_out>>

\* PullCommands: the generator returns before its loop, finally closes the
\* session; the stream ends without a command.
PullInvalidToken(s, device_id, token) ==
    /\ streams[s].pc = "closed"
    /\ ~_verify_token(device_id, token)
    /\ kret' = Refused("PullCommands", device_id, "")
    /\ UNCHANGED <<now, ticks, gdevices, commands, streams, sent, registryVars, deriveVars,
                   liveVars, sessVars, issued, perm_in, perm_out>>

\* ReportResult: ReportResponse(success=False, message="Invalid token").
ReportInvalidToken(device_id, token, command_id, r) ==
    /\ ~_verify_token(device_id, token)
    /\ kret' = Refused("ReportResult", device_id, "Invalid token")
    /\ UNCHANGED <<now, ticks, gdevices, commands, streams, sent, registryVars, deriveVars,
                   liveVars, sessVars, issued, perm_in, perm_out>>

(***************************************************************************)
(* The clock.                                                              *)
(***************************************************************************)
Elapse(dt) ==
    /\ now' = now + dt
    /\ ticks' = ticks + 1
    /\ UNCHANGED <<gdevices, commands, streams, sent, registryVars, deriveVars, liveVars, sessVars, authVars>>

Tick(dt) ==
    /\ ticks < MaxTicks
    /\ Elapse(dt)

(***************************************************************************)
(* device_registration.py: DeviceRegistrationManager.                      *)
(* Strings that generate_device_id joins are sequences of characters.      *)
(***************************************************************************)
Alphabet == {"a", ":"}
Separator == ":"

CharCode(c) == IF c = "a" THEN 1 ELSE 2
DigestBase == Cardinality(Alphabet) + 1

RECURSIVE Sha256Hex16(_)
\* hashlib.sha256(data).hexdigest()[:16], taken to be free of collisions:
\* the digest of a string is its numeral in bijective base DigestBase.
Sha256Hex16(data) ==
    IF data = <<>> THEN 0
    ELSE Sha256Hex16(SubSeq(data, 1, Len(data) - 1)) * DigestBase
            + CharCode(data[Len(data)])

\* f"{ip_address}:{hostname}"
IdentityString(ip_address, hostname) == ip_address \o <<Separator>> \o hostname

generate_device_id(ip_address, hostname) ==
    <<"device-", Sha256Hex16(IdentityString(ip_address, hostname))>>

\* Optional[Dict]: None is <<>>, a dict m is <<m>>; the empty dict is <<>>.
None == <<>>
Some(m) == <<m>>
EmptyDict == <<>>
OrEmpty(opt) == IF opt = None THEN EmptyDict ELSE opt[1]

\* The register_device calls the agents make.
RegRequests ==
    { [hostname |-> <<"a", ":", "a">>, ip_address |-> <<"a">>, os_type |-> "linux",
       os_version |-> "22.04", agent_version |-> "1.0.0",
       metadata |-> Some([cpu_cores |-> 8])],
      [hostname |-> <<"a", ":", "a">>, ip_address |-> <<"a">>, os_type |-> "linux",
       os_version |-> "22.04.1", agent_version |-> "1.0.1",
       metadata |-> None],
      [hostname |-> <<"a">>, ip_address |-> <<"a", ":", "a">>, os_type |-> "linux",
       os_version |-> "22.04", agent_version |-> "1.0.0",
       metadata |-> Some([memory_gb |-> 16])],
      [hostname |-> <<"a">>, ip_address |-> <<"a">>, os_type |-> "linux",
       os_version |-> "22.04", agent_version |-> "1.0.0",
       metadata |-> None] }

RegProcs == {"p1", "p2"}
RegDeviceIds == {generate_device_id(r.ip_address, r.hostname) : r \in RegRequests}
DeviceStatuses == {"online", "offline"}

IdleReg == [pc |-> "idle"]
NoRow == [device_id |-> <<"none", 0>>]

RowsWithId(rows, device_id) == {i \in DOMAIN rows : rows[i].device_id = device_id}

\* Mutant of UniqueViolation: the table has no unique index on device_id.
NoUniqueIndex(rows, device_id) == FALSE

\* devices.device_id is unique: an INSERT of a present device_id raises.
UniqueViolation(rows, device_id) == RowsWithId(rows, device_id) # {}

\* Mutant of UpdatedRow: the UPDATE leaves the status column alone.
UpdatedRowKeepStatus(row, req, t) ==
    [row EXCEPT !.hostname = req.hostname,
                !.ip_address = req.ip_address,
                !.os_type = req.os_type,
                !.os_version = req.os_version,
                !.agent_version = req.agent_version,
                !.metadata = OrEmpty(req.metadata),
                !.last_seen_at = t]

\* UPDATE devices SET hostname, ip_address, os_type, os_version,
\* agent_version, metadata, last_seen_at, status = 'online'
UpdatedRow(row, req, t) ==
    [row EXCEPT !.hostname = req.hostname,
                !.ip_address = req.ip_address,
                !.os_type = req.os_type,
                !.os_version = req.os_version,
                !.agent_version = req.agent_version,
                !.metadata = OrEmpty(req.metadata),
                !.last_seen_at = t,
                !.status = "online"]

\* INSERT INTO devices (...) VALUES (..., 'online'); the timestamps take the
\* store's default, the time of the insert.
InsertedRow(device_id, req, t) ==
    [device_id |-> device_id,
     device_name |-> <<req.hostname, req.ip_address>>,
     hostname |-> req.hostname,
     ip_address |-> req.ip_address,
     os_type |-> req.os_type,
     os_version |-> req.os_version,
     agent_version |-> req.agent_version,
     metadata |-> OrEmpty(req.metadata),
     status |-> "online",
     last_seen_at |-> t,
     registered_at |-> t]

\* register_device up to its SELECT: derive the id, look the row up.
RegSelect(p, req) ==
    /\ regs[p].pc \in {"idle", "done"}
    /\ LET device_id == generate_device_id(req.ip_address, req.hostname)
       IN regs' = [regs EXCEPT ![p] =
                      [pc |-> "selected", req |-> req, device_id |-> device_id,
                       existing |-> RowsWithId(devices, device_id) # {}]]
    /\ UNCHANGED <<now, ticks, gdevices, commands, streams, sent, devices, deriveVars, liveVars, sessVars, authVars>>

\* register_device from the SELECT on: the UPDATE or the INSERT, RETURNING *,
\* commit.  ret is the row returned, or NoRow when the call raises (an INSERT
\* that violates the unique index, or an UPDATE that found no row).
RegWrite(p) ==
    /\ regs[p].pc = "selected"
    /\ LET req == regs[p].req
           device_id == regs[p].device_id
           hit == RowsWithId(devices, device_id)
       IN IF regs[p].existing
          THEN /\ devices' = [i \in DOMAIN devices |->
                                 IF i \in hit THEN UpdatedRow(devices[i], req, now)
                                 ELSE devices[i]]
               /\ regs' = [regs EXCEPT ![p] =
                              [pc |-> "done", req |-> req, device_id |-> device_id,
                               existing |-> TRUE,
                               ret |-> IF hit = {} THEN NoRow
                                       ELSE UpdatedRow(devices[CHOOSE i \in hit : TRUE],
                                                       req, now)]]
          ELSE IF UniqueViolation(devices, device_id)
          THEN /\ devices' = devices
               /\ regs' = [regs EXCEPT ![p] =
                              [pc |-> "done", req |-> req, device_id |-> device_id,
                               existing |-> FALSE, ret |-> NoRow]]
          ELSE /\ devices' = Append(devices, InsertedRow(device_id, req, now))
               /\ regs' = [regs EXCEPT ![p] =
                              [pc |-> "done", req |-> req, device_id |-> device_id,
                               existing |-> FALSE,
                               ret |-> InsertedRow(device_id, req, now)]]
    /\ UNCHANGED <<now, ticks, gdevices, commands, streams, sent, deriveVars, liveVars, sessVars, authVars>>

\* UPDATE devices SET status = %s, last_seen = %s WHERE device_id = %s
update_device_status(device_id, status) ==
    /\ devices' = [i \in DOMAIN devices |->
                      IF devices[i].device_id = device_id
                      THEN [devices[i] EXCEPT !.status = status, !.last_seen_at = now]
                      ELSE devices[i]]
    /\ UNCHANGED <<now, ticks, gdevices, commands, streams, sent, regs, deriveVars, liveVars, sessVars, authVars>>

\* DELETE FROM devices WHERE device_id = %s
delete_device(device_id) ==
    /\ devices' = SelectSeq(devices, LAMBDA row : row.device_id # device_id)
    /\ UNCHANGED <<now, ticks, gdevices, commands, streams, sent, regs, deriveVars, liveVars, sessVars, authVars>>

(***************************************************************************)
(* generate_device_id on its own.                                          *)
(***************************************************************************)
MaxLen == 2
Strings == UNION {[1..k -> Alphabet] : k \in 0..MaxLen}
Pairs == [ip_address : Strings, hostname : Strings]
Slots == {"x", "y"}
NoId == <<"none", 0>>
EmptyPair == [ip_address |-> <<>>, hostname |-> <<>>]

Derive(k) ==
    /\ id_out[k] = NoId
    /\ id_out' = [id_out EXCEPT ![k] =
                     generate_device_id(id_in[k].ip_address, id_in[k].hostname)]
    /\ UNCHANGED <<now, ticks, gdevices, commands, streams, sent, registryVars, id_in,
                   liveVars, sessVars, authVars>>

(***************************************************************************)
(* heartbeat.py: HeartbeatManager, on the devices table of the registry.   *)
(* A dict is a function from its keys; a nested dict is a nested function. *)
(***************************************************************************)
MaxLiveTicks == 2
MaxMetaTicks == 1
HEARTBEAT_TIMEOUT == 300
LiveTickSteps == {1, HEARTBEAT_TIMEOUT + 1}

HbProcs == {"h1", "h2"}
IdleHb == [pc |-> "idle"]
IdleSweep == [pc |-> "idle"]

\* The devices registered before the heartbeats start, and an id that no
\* register_device call has produced.
LiveRequests ==
    << [hostname |-> <<"a">>, ip_address |-> <<"a">>, os_type |-> "linux",
        os_version |-> "22.04", agent_version |-> "1.0.0",
        metadata |-> Some([cpu_cores |-> 8])],
       [hostname |-> <<"a", "a">>, ip_address |-> <<"a">>, os_type |-> "linux",
        os_version |-> "22.04", agent_version |-> "1.0.0",
        metadata |-> None] >>
LiveTable ==
    [i \in DOMAIN LiveRequests |->
        InsertedRow(generate_device_id(LiveRequests[i].ip_address, LiveRequests[i].hostname),
                    LiveRequests[i], 0)]
LiveRegistered == {LiveTable[i].device_id : i \in DOMAIN LiveTable}
UnknownDeviceId == generate_device_id(<<>>, <<>>)
LiveDeviceIds == LiveRegistered \cup {UnknownDeviceId}

\* The bodies of HeartbeatRequest the agents send: the bare heartbeat, and
\* heartbeats that carry metrics or metadata.
BareHeartbeat == [metrics |-> None, metadata |-> None]
HbInputs ==
    { BareHeartbeat,
      [metrics |-> Some([cpu |-> 10, mem |-> 20]), metadata |-> None],
      [metrics |-> Some([cpu |-> 30]), metadata |-> None],
      [metrics |-> None, metadata |-> Some([rack |-> 1])],
      [metrics |-> None, metadata |-> Some([zone |-> 2])] }

\* `if metrics:` - None and the empty dict are both false.
Truthy(opt) == opt # None /\ DOMAIN opt[1] # {}

\* dict.update(other)
DictUpdate(d, other) ==
    [k \in DOMAIN d \cup DOMAIN other |-> IF k \in DOMAIN other THEN other[k] ELSE d[k]]

\* current_metadata['metrics'] = metrics; ['metrics_updated_at'] = now;
\* current_metadata.update(metadata)
MergedMetadata(current_metadata, metrics, metadata, t) ==
    LET with_metrics ==
            IF Truthy(metrics)
            THEN DictUpdate(current_metadata,
                            [metrics |-> metrics[1], metrics_updated_at |-> t])
            ELSE current_metadata
    IN IF Truthy(metadata) THEN DictUpdate(with_metrics, metadata[1]) ELSE with_metrics

\* Mutant of HeartbeatRow: the UPDATE leaves the status column alone.
HeartbeatRowKeepStatus(row, call) ==
    IF Truthy(call.metrics) \/ Truthy(call.metadata)
    THEN [row EXCEPT !.last_seen_at = call.t,
                     !.metadata = MergedMetadata(call.device_metadata, call.metrics,
                                                 call.metadata, call.t)]
    ELSE [row EXCEPT !.last_seen_at = call.t]

\* UPDATE devices SET status = 'online', last_seen = %s [, metadata = %s]
HeartbeatRow(row, call) ==
    IF Truthy(call.metrics) \/ Truthy(call.metadata)
    THEN [row EXCEPT !.status = "online",
                     !.last_seen_at = call.t,
                     !.metadata = MergedMetadata(call.device_metadata, call.metrics,
                                                 call.metadata, call.t)]
    ELSE [row EXCEPT !.status = "online", !.last_seen_at = call.t]

\* Mutant of HbSelect: a heartbeat for an unknown device registers it.
HbSelectUpsert(p, device_id, body) ==
    /\ hbs[p].pc \in {"idle", "done"}
    /\ LET hit == RowsWithId(devices, device_id)
       IN IF hit = {}
          THEN /\ devices' = Append(devices, [LiveTable[1] EXCEPT !.device_id = device_id])
               /\ hbs' = [hbs EXCEPT ![p] = [pc |-> "done", ret |-> "online"]]
          ELSE /\ devices' = devices
               /\ hbs' = [hbs EXCEPT ![p] =
                             [pc |-> "selected", device_id |-> device_id,
                              metrics |-> body.metrics, metadata |-> body.metadata,
                              device_metadata |-> devices[CHOOSE i \in hit : TRUE].metadata,
                              t |-> -1, ret |-> "none"]]
    /\ UNCHANGED <<now, ticks, gdevices, commands, streams, sent, regs, deriveVars,
                   sweep, sessVars, authVars>>

\* report_heartbeat up to its SELECT; an unknown device raises ValueError,
\* which the route answers 404.
HbSelect(p, device_id, body) ==
    /\ hbs[p].pc \in {"idle", "done"}
    /\ LET hit == RowsWithId(devices, device_id)
       IN hbs' = [hbs EXCEPT ![p] =
                     IF hit = {}
                     THEN [pc |-> "done", ret |-> "not_found"]
                     ELSE [pc |-> "selected", device_id |-> device_id,
                           metrics |-> body.metrics, metadata |-> body.metadata,
                           device_metadata |-> devices[CHOOSE i \in hit : TRUE].metadata,
                           t |-> -1, ret |-> "none"]]
    /\ UNCHANGED <<now, ticks, gdevices, commands, streams, sent, devices, regs, deriveVars,
                   sweep, sessVars, authVars>>

\* now = datetime.now()
HbClock(p) ==
    /\ hbs[p].pc = "selected"
    /\ hbs' = [hbs EXCEPT ![p] = [@ EXCEPT !.pc = "timed", !.t = now]]
    /\ UNCHANGED <<now, ticks, gdevices, commands, streams, sent, devices, regs, deriveVars,
                   sweep, sessVars, authVars>>

\* the UPDATE ... RETURNING *, the commit and the return
HbWrite(p) ==
    /\ hbs[p].pc = "timed"
    /\ devices' = [i \in DOMAIN devices |->
                      IF devices[i].device_id = hbs[p].device_id
                      THEN HeartbeatRow(devices[i], hbs[p])
                      ELSE devices[i]]
    /\ hbs' = [hbs EXCEPT ![p] = [pc |-> "done", ret |-> "online"]]
    /\ UNCHANGED <<now, ticks, gdevices, commands, streams, sent, regs, deriveVars,
                   sweep, sessVars, authVars>>

\* SELECT device_id FROM devices WHERE status = 'online' AND last_seen < %s
Stale(row, offline_threshold) ==
    /\ row.status = "online"
    /\ row.last_seen_at < offline_threshold

OfflineDevices(rows, offline_threshold) ==
    {rows[i].device_id : i \in {j \in DOMAIN rows : Stale(rows[j], offline_threshold)}}

\* check_offline_devices up to its SELECT; with nothing selected it returns.
SweepSelect ==
    /\ sweep.pc \in {"idle", "done"}
    /\ LET offline_devices == OfflineDevices(devices, now - HEARTBEAT_TIMEOUT)
       IN sweep' = [pc |-> IF offline_devices = {} THEN "done" ELSE "selected",
                    offline_devices |-> offline_devices]
    /\ UNCHANGED <<now, ticks, gdevices, commands, streams, sent, devices, regs, deriveVars,
                   hbs, sessVars, authVars>>

\* UPDATE devices SET status = 'offline' WHERE device_id = ANY(%s); commit
SweepWrite ==
    /\ sweep.pc = "selected"
    /\ devices' = [i \in DOMAIN devices |->
                      IF devices[i].device_id \in sweep.offline_devices
                      THEN [devices[i] EXCEPT !.status = "offline"]
                      ELSE devices[i]]
    /\ sweep' = [sweep EXCEPT !.pc = "done"]
    /\ UNCHANGED <<now, ticks, gdevices, commands, streams, sent, regs, deriveVars,
                   hbs, sessVars, authVars>>

(***************************************************************************)
(* session_manager.py: SessionManager, and the api_keys rows its join      *)
(* reads (api_key_manager.py).  Times are seconds.                         *)
(***************************************************************************)
MaxSessTicks == 3
HOUR == 3600
DAY == 24 * HOUR
DEFAULT_SESSION_HOURS == 72
SessTickSteps == {60, 71 * HOUR + 59 * 60}

ApiKeyIds == {1, 2}
KeyDraw == <<"k1", "k2">>
ApiNames == {"n1", "n2"}
ApiTypes == {"web", "external", "internal"}
Secrets == {"s1", "s2"}
SessionDraw == <<"t1", "t2">>
SessionTokens == {SessionDraw[i] : i \in DOMAIN SessionDraw}
SessionHours == {DEFAULT_SESSION_HOURS}
ExtendHours == {1, DEFAULT_SESSION_HOURS}
ExpiresDays == {None, Some(1)}

\* An id or token that was never drawn has no row; one whose row was deleted
\* has no row either and is never drawn again.
NoKey == [state |-> "none"]
DeletedKey == [state |-> "deleted"]
NoSession == [state |-> "none"]
DeletedSession == [state |-> "deleted"]
NoReturn == [op |-> "none"]
NoExpiry == -1
NeverUsed == -1
NoIssue == [state |-> "none"]

IsKeyRow(k) == api_keys[k].state = "row"
IsSessionRow(tok) == sessions[tok].state = "row"

\* generate_api_key: secrets.token_urlsafe(48)[:64], a fresh value per row:
\* the draw made for a credential's row is fixed here in advance.
generate_api_key(id) == KeyDraw[id]

\* create_api_key with api_type one of web, external, internal and no
\* permissions: INSERT INTO api_keys (user_id, key, name, is_active,
\* expires_at) with is_active True and expires_at now + expires_days, or
\* NULL.  The hash of secret, api_type and the permissions are in no column;
\* issued keeps the secret the caller chose and the api_type of the result.
FreeIds(keys) == {k \in ApiKeyIds : keys[k] = NoKey}

\* RETURNING id: the serial column gives the lowest id not used so far.
NextKeyId(keys) == CHOOSE k \in FreeIds(keys) : \A j \in FreeIds(keys) : k <= j

InsertedKey(id, api_name, expires_days) ==
    [state |-> "row", key |-> generate_api_key(id),
     name |-> api_name, is_active |-> TRUE,
     expires_at |-> IF expires_days = None THEN NoExpiry
                    ELSE now + expires_days[1] * DAY,
     last_used_at |-> NeverUsed]

Issued(api_type, secret) ==
    [state |-> "issued", api_type |-> api_type, secret |-> secret]

create_api_key(api_name, api_type, secret, expires_days) ==
    /\ FreeIds(api_keys) # {}
    /\ api_keys' = [api_keys EXCEPT ![NextKeyId(api_keys)] =
                       InsertedKey(NextKeyId(api_keys), api_name, expires_days)]
    /\ issued' = [issued EXCEPT ![NextKeyId(api_keys)] = Issued(api_type, secret)]
    /\ UNCHANGED <<now, ticks, gdevices, commands, streams, sent, registryVars, deriveVars,
                   liveVars, sessions, sret, kret, perm_in, perm_out>>

\* update_api_key(api_key_id, api_name=..., is_active=...): UPDATE api_keys
\* SET the columns that are not None WHERE id = %s; with nothing to set it
\* returns False.  deactivate_api_key is the call with is_active False.
update_api_key(api_key_id, api_name, is_active) ==
    /\ IsKeyRow(api_key_id)
    /\ api_keys' = [api_keys EXCEPT ![api_key_id] =
                       [@ EXCEPT !.name = IF api_name = None THEN @ ELSE api_name[1],
                                 !.is_active = IF is_active = None THEN @
                                               ELSE is_active[1]]]
    /\ UNCHANGED <<now, ticks, gdevices, commands, streams, sent, registryVars, deriveVars,
                   liveVars, authVars, sessions, sret>>

\* delete_api_key: DELETE FROM api_keys WHERE id = %s.  The foreign key of
\* sessions.api_key_id is declared outside this repository's sources: the
\* delete either removes the key's sessions with it (cascade is TRUE) or
\* leaves them without a key to join.
delete_api_key(api_key_id, cascade) ==
    /\ IsKeyRow(api_key_id)
    /\ api_keys' = [api_keys EXCEPT ![api_key_id] = DeletedKey]
    /\ sessions' = [tok \in SessionTokens |->
                       IF cascade /\ IsSessionRow(tok)
                                  /\ sessions[tok].api_key_id = api_key_id
                       THEN DeletedSession ELSE sessions[tok]]
    /\ UNCHANGED <<now, ticks, gdevices, commands, streams, sent, registryVars, deriveVars,
                   liveVars, authVars, sret>>

\* generate_session_token: the next token nobody holds yet.
generate_session_token ==
    SessionDraw[Cardinality({tok \in SessionTokens : sessions[tok] # NoSession}) + 1]

\* create_session: expires_at = now + session_hours; INSERT.
create_session(api_key_id, session_hours) ==
    /\ IsKeyRow(api_key_id)
    /\ \E tok \in SessionTokens : sessions[tok] = NoSession
    /\ LET session_token == generate_session_token
       IN /\ sessions' = [sessions EXCEPT ![session_token] =
                             [state |-> "row", api_key_id |-> api_key_id,
                              expires_at |-> now + session_hours * HOUR,
                              last_activity_at |-> now, created_at |-> now]]
          /\ sret' = [op |-> "create", token |-> session_token, ok |-> TRUE]
    /\ UNCHANGED <<now, ticks, gdevices, commands, streams, sent, registryVars, deriveVars,
                   liveVars, authVars, api_keys>>

\* The checks of verify_session: the row of the join exists, the API key is
\* active, and not expires_at < datetime.now().
SessionJoined(tok) == IsSessionRow(tok) /\ IsKeyRow(sessions[tok].api_key_id)

\* Mutant of Verifies: the session's expires_at is not tested.
VerifiesIgnoringExpiry(tok) ==
    /\ SessionJoined(tok)
    /\ api_keys[sessions[tok].api_key_id].is_active

Verifies(tok) ==
    /\ SessionJoined(tok)
    /\ api_keys[sessions[tok].api_key_id].is_active
    /\ ~(sessions[tok].expires_at < now)

\* Mutant of verify_session: a successful verify also pushes the expiry out.
verify_session_sliding(session_token) ==
    /\ IF Verifies(session_token)
       THEN sessions' = [sessions EXCEPT ![session_token] =
                            [@ EXCEPT !.last_activity_at = now,
                                      !.expires_at = now + DEFAULT_SESSION_HOURS * HOUR]]
       ELSE sessions' = sessions
    /\ sret' = [op |-> "verify", token |-> session_token, ok |-> Verifies(session_token)]
    /\ UNCHANGED <<now, ticks, gdevices, commands, streams, sent, registryVars, deriveVars,
                   liveVars, authVars, api_keys>>

\* verify_session: on success UPDATE sessions SET last_activity_at.
verify_session(session_token) ==
    /\ IF Verifies(session_token)
       THEN sessions' = [sessions EXCEPT ![session_token] =
                            [@ EXCEPT !.last_activity_at = now]]
       ELSE sessions' = sessions
    /\ sret' = [op |-> "verify", token |-> session_token, ok |-> Verifies(session_token)]
    /\ UNCHANGED <<now, ticks, gdevices, commands, streams, sent, registryVars, deriveVars,
                   liveVars, authVars, api_keys>>

\* Mutant of Refreshable: the UPDATE does not test expires_at.
RefreshableWhenStored(tok) == IsSessionRow(tok)

\* WHERE session_token = %s AND expires_at > CURRENT_TIMESTAMP
Refreshable(tok) == IsSessionRow(tok) /\ sessions[tok].expires_at > now

\* refresh_session: UPDATE sessions SET expires_at, last_activity_at.
refresh_session(session_token, extend_hours) ==
    /\ IF Refreshable(session_token)
       THEN sessions' = [sessions EXCEPT ![session_token] =
                            [@ EXCEPT !.expires_at = now + extend_hours * HOUR,
                                      !.last_activity_at = now]]
       ELSE sessions' = sessions
    /\ sret' = [op |-> "refresh", token |-> session_token,
                ok |-> Refreshable(session_token)]
    /\ UNCHANGED <<now, ticks, gdevices, commands, streams, sent, registryVars, deriveVars,
                   liveVars, authVars, api_keys>>

\* delete_session: DELETE FROM sessions WHERE session_token = %s
delete_session(session_token) ==
    /\ sessions' = [sessions EXCEPT ![session_token] =
                       IF IsSessionRow(session_token) THEN DeletedSession ELSE @]
    /\ sret' = [op |-> "delete", token |-> session_token,
                ok |-> IsSessionRow(session_token)]
    /\ UNCHANGED <<now, ticks, gdevices, commands, streams, sent, registryVars, deriveVars,
                   liveVars, authVars, api_keys>>

\* Mutant of OwnedBy: the DELETE has lost its WHERE clause.
OwnedByAny(tok, api_key_id) == IsSessionRow(tok)

\* WHERE api_key_id = %s
OwnedBy(tok, api_key_id) == IsSessionRow(tok) /\ sessions[tok].api_key_id = api_key_id

\* delete_sessions_by_api_key: DELETE FROM sessions WHERE api_key_id = %s;
\* returns cur.rowcount.
delete_sessions_by_api_key(api_key_id) ==
    /\ sessions' = [tok \in SessionTokens |->
                       IF OwnedBy(tok, api_key_id) THEN DeletedSession ELSE sessions[tok]]
    /\ sret' = [op |-> "delete_sessions_by_api_key", api_key_id |-> api_key_id,
                count |-> Cardinality({tok \in SessionTokens : OwnedBy(tok, api_key_id)})]
    /\ UNCHANGED <<now, ticks, gdevices, commands, streams, sent, registryVars, deriveVars,
                   liveVars, authVars, api_keys>>

\* Mutant of Reaped: the DELETE also takes the rows that expire just now.
ReapedAtExpiry(tok) == IsSessionRow(tok) /\ sessions[tok].expires_at <= now

\* WHERE expires_at < CURRENT_TIMESTAMP
Reaped(tok) == IsSessionRow(tok) /\ sessions[tok].expires_at < now

\* cleanup_expired_sessions: DELETE FROM sessions WHERE expires_at < now;
\* returns cur.rowcount.
cleanup_expired_sessions ==
    /\ sessions' = [tok \in SessionTokens |->
                       IF Reaped(tok) THEN DeletedSession ELSE sessions[tok]]
    /\ sret' = [op |-> "cleanup",
                count |-> Cardinality({tok \in SessionTokens : Reaped(tok)})]
    /\ UNCHANGED <<now, ticks, gdevices, commands, streams, sent, registryVars, deriveVars,
                   liveVars, authVars, api_keys>>

(***************************************************************************)
(* api_key_manager.py: APIKeyManager.verify_api_key, and the API-key path  *)
(* of the gate, auth_middleware.py.                                        *)
(***************************************************************************)
MaxCredTicks == 1
CredTickSteps == {DAY, DAY + 60}

BREAK_GLASS_KEY == "web_admin_api_key_2024_v1"
BREAK_GLASS_SECRET == "admin_secret_2024"
UnknownKey == "k0"

\* The keys and secrets a caller may present; "" is the empty string.
PresentedKeys == {KeyDraw[i] : i \in DOMAIN KeyDraw} \cup {BREAK_GLASS_KEY, UnknownKey}
PresentedSecrets == Secrets \cup {"", BREAK_GLASS_SECRET}
KeyHeaders == {None} \cup {Some(k) : k \in PresentedKeys}
SecretHeaders == {None, Some(""), Some("s1"), Some(BREAK_GLASS_SECRET)}

\* Mutant of BreakGlass: the emergency branch looks at the key alone.
BreakGlassAnySecret(api_key, secret) == api_key = BREAK_GLASS_KEY

\* if api_key == "web_admin_api_key_2024_v1" and secret == "admin_secret_2024"
BreakGlass(api_key, secret) ==
    api_key = BREAK_GLASS_KEY /\ secret = BREAK_GLASS_SECRET

EmergencyInfo ==
    [id |-> 0, api_key |-> BREAK_GLASS_KEY, api_type |-> "web",
     permissions |-> <<"*">>, is_active |-> TRUE]

\* SELECT ... FROM api_keys WHERE key = %s; key is unique.
KeyRows(api_key) == {k \in ApiKeyIds : IsKeyRow(k) /\ api_keys[k].key = api_key}

\* Mutant of KeyUsable: is_active is not tested.
KeyUsableWhenInactive(k) ==
    ~(api_keys[k].expires_at # NoExpiry /\ api_keys[k].expires_at < now)

\* The checks on the row: is_active, and not (expires_at and expires_at <
\* datetime.now()).  The secret is compared with nothing.
KeyUsable(k) ==
    /\ api_keys[k].is_active
    /\ ~(api_keys[k].expires_at # NoExpiry /\ api_keys[k].expires_at < now)

\* The row verify_api_key accepts for api_key; {} when it accepts none.
Accepted(api_key) == {k \in KeyRows(api_key) : KeyUsable(k)}

\* api_key_info with api_type 'web' and permissions ['*'] filled in.
ApiKeyInfo(k) ==
    [id |-> k, api_key |-> api_keys[k].key, api_type |-> "web",
     permissions |-> <<"*">>, is_active |-> api_keys[k].is_active]

\* What verify_api_key(api_key, secret) gives its caller: the emergency
\* identity before the store is opened, psycopg2.connect raising when the
\* store cannot be reached, None, or the row's api_key_info.
VerifyOutcome(api_key, secret, reachable) ==
    IF BreakGlass(api_key, secret)
    THEN [outcome |-> "return", info |-> Some(EmergencyInfo)]
    ELSE IF ~reachable
    THEN [outcome |-> "raise", info |-> None]
    ELSE IF Accepted(api_key) = {}
    THEN [outcome |-> "return", info |-> None]
    ELSE [outcome |-> "return",
          info |-> Some(ApiKeyInfo(CHOOSE k \in Accepted(api_key) : TRUE))]

\* UPDATE api_keys SET last_used_at = CURRENT_TIMESTAMP WHERE id = %s
VerifyTouch(api_key, secret, reachable) ==
    IF BreakGlass(api_key, secret) \/ ~reachable
    THEN api_keys
    ELSE [k \in ApiKeyIds |->
             IF k \in Accepted(api_key)
             THEN [api_keys[k] EXCEPT !.last_used_at = now]
             ELSE api_keys[k]]

\* APIKeyManager.verify_api_key
verify_api_key(api_key, secret, reachable) ==
    /\ api_keys' = VerifyTouch(api_key, secret, reachable)
    /\ kret' = [op |-> "verify_api_key", api_key |-> Some(api_key),
                outcome |-> VerifyOutcome(api_key, secret, reachable).outcome,
                info |-> VerifyOutcome(api_key, secret, reachable).info]
    /\ UNCHANGED <<now, ticks, gdevices, commands, streams, sent, registryVars, deriveVars,
                   liveVars, sessions, sret, issued, perm_in, perm_out>>

\* `not x`: None and the empty string are both false.
Falsy(header) == header = None \/ header = Some("")

\* x_api_secret or ""
SecretOrEmpty(header) == IF Falsy(header) THEN "" ELSE header[1]

\* AuthMiddleware.verify_api_key, the dependency require_api_key: 401
\* without a key, else the manager's answer, 401 when that is None.
GateKeyOutcome(x_api_key, x_api_secret, reachable) ==
    IF Falsy(x_api_key)
    THEN [outcome |-> "raise", status |-> 401, info |-> None]
    ELSE LET r == VerifyOutcome(x_api_key[1], SecretOrEmpty(x_api_secret), reachable)
         IN IF r.outcome = "raise"
            THEN [outcome |-> "raise", status |-> 500, info |-> None]
            ELSE IF r.info = None
            THEN [outcome |-> "raise", status |-> 401, info |-> None]
            ELSE [outcome |-> "return", status |-> 200, info |-> r.info]

\* The detail of the HTTPException it raises; "" when it returns, and for
\* the error psycopg2 raises.
GateKeyDetail(x_api_key, x_api_secret, reachable) ==
    IF Falsy(x_api_key) THEN "Missing API Key"
    ELSE IF GateKeyOutcome(x_api_key, x_api_secret, reachable).status = 401
    THEN "Invalid API Key or Secret"
    ELSE ""

GateKeyTouch(x_api_key, x_api_secret, reachable) ==
    IF Falsy(x_api_key)
    THEN api_keys
    ELSE VerifyTouch(x_api_key[1], SecretOrEmpty(x_api_secret), reachable)

require_api_key(x_api_key, x_api_secret, reachable) ==
    /\ api_keys' = GateKeyTouch(x_api_key, x_api_secret, reachable)
    /\ kret' = [op |-> "require_api_key", api_key |-> x_api_key,
                outcome |-> GateKeyOutcome(x_api_key, x_api_secret, reachable).outcome,
                status |-> GateKeyOutcome(x_api_key, x_api_secret, reachable).status,
                detail |-> GateKeyDetail(x_api_key, x_api_secret, reachable),
                info |-> GateKeyOutcome(x_api_key, x_api_secret, reachable).info]
    /\ UNCHANGED <<now, ticks, gdevices, commands, streams, sent, registryVars, deriveVars,
                   liveVars, sessions, sret, issued, perm_in, perm_out>>

(***************************************************************************)
(* backend/auth_middleware.py: verify_session_or_api_key, the gate of      *)
(* require_auth.                                                           *)
(***************************************************************************)
MaxGateTicks == 1
GateTickSteps == {73 * HOUR}

\* The Authorization header: absent, or Bearer with a session token.
AuthHeaders == {None} \cup {Some(tok) : tok \in SessionTokens}
GateKeyHeaders == {None} \cup {Some(KeyDraw[i]) : i \in DOMAIN KeyDraw}
GateSecretHeaders == {None, Some("s1")}

\* verify_session_token returns: authorization is there and verify_session
\* gives the session.
SessionPath(authorization) == authorization # None /\ Verifies(authorization[1])

\* verify_api_key returns: x_api_key is there and the manager gives a row.
KeyPath(x_api_key, x_api_secret) ==
    GateKeyOutcome(x_api_key, x_api_secret, TRUE).outcome = "return"

\* Mutant of GatePath: the API key is tried before the session token.
GatePathKeyFirst(authorization, x_api_key, x_api_secret) ==
    IF KeyPath(x_api_key, x_api_secret) THEN "api_key"
    ELSE IF SessionPath(authorization) THEN "session"
    ELSE "none"

\* if authorization: try the session token; if x_api_key: try the API key;
\* each HTTPException is swallowed, and 401 is raised when nothing returned.
GatePath(authorization, x_api_key, x_api_secret) ==
    IF SessionPath(authorization) THEN "session"
    ELSE IF KeyPath(x_api_key, x_api_secret) THEN "api_key"
    ELSE "none"

verify_session_or_api_key(authorization, x_api_key, x_api_secret) ==
    LET path == GatePath(authorization, x_api_key, x_api_secret)
    IN /\ sessions' = IF path = "session"
                      THEN [sessions EXCEPT ![authorization[1]] =
                               [@ EXCEPT !.last_activity_at = now]]
                      ELSE sessions
       /\ sret' = IF authorization = None THEN sret
                  ELSE [op |-> "verify", token |-> authorization[1],
                        ok |-> Verifies(authorization[1])]
       /\ api_keys' = IF path = "api_key"
                      THEN GateKeyTouch(x_api_key, x_api_secret, TRUE)
                      ELSE api_keys
       /\ kret' = [op |-> "verify_session_or_api_key", kind |-> path,
                   bearer |-> authorization,
                   outcome |-> IF path = "none" THEN "raise" ELSE "return",
                   status |-> IF path = "none" THEN 401 ELSE 200,
                   token |-> IF path = "session" THEN authorization ELSE None,
                   info |-> IF path = "api_key"
                            THEN GateKeyOutcome(x_api_key, x_api_secret, TRUE).info
                            ELSE None]
       /\ UNCHANGED <<now, ticks, gdevices, commands, streams, sent, registryVars,
                      deriveVars, liveVars, issued, perm_in, perm_out>>

(***************************************************************************)
(* The other authentication dependencies: require_session of               *)
(* auth_middleware.py and get_current_user of auth.py.                     *)
(***************************************************************************)
\* AuthMiddleware.verify_session_token: 401 without the header, else
\* verify_session, 401 when that gives None.
SessionDetail(authorization) ==
    IF authorization = None THEN "Missing authorization header"
    ELSE IF ~Verifies(authorization[1]) THEN "Invalid or expired session token"
    ELSE ""

require_session(authorization) ==
    /\ sessions' = IF SessionPath(authorization)
                   THEN [sessions EXCEPT ![authorization[1]] =
                            [@ EXCEPT !.last_activity_at = now]]
                   ELSE sessions
    /\ sret' = IF authorization = None THEN sret
               ELSE [op |-> "verify", token |-> authorization[1],
                     ok |-> Verifies(authorization[1])]
    /\ kret' = [op |-> "require_session", bearer |-> authorization,
                outcome |-> IF SessionPath(authorization) THEN "return" ELSE "raise",
                status |-> IF SessionPath(authorization) THEN 200 ELSE 401,
                detail |-> SessionDetail(authorization)]
    /\ UNCHANGED <<now, ticks, gdevices, commands, streams, sent, registryVars, deriveVars,
                   liveVars, api_keys, issued, perm_in, perm_out>>

\* db.query(APIKey).filter_by(key=api_key, is_active=True).first()
ActiveKeyRows(api_key) == {k \in KeyRows(api_key) : api_keys[k].is_active}

\* APIKey.is_expired: expires_at is not None and utcnow() > expires_at.
is_expired(k) == api_keys[k].expires_at # NoExpiry /\ now > api_keys[k].expires_at

\* get_current_user: the key of the Bearer header is looked up among the
\* active rows, then tested for expiry.  Every row create_api_key inserts
\* belongs to the user 'system', which is active.
CurrentUserDetail(api_key) ==
    IF ActiveKeyRows(api_key) = {} THEN "Invalid API Key"
    ELSE IF \E k \in ActiveKeyRows(api_key) : is_expired(k) THEN "API Key expired"
    ELSE ""

get_current_user(api_key) ==
    /\ api_keys' = [k \in ApiKeyIds |->
                       IF k \in ActiveKeyRows(api_key) /\ CurrentUserDetail(api_key) = ""
                       THEN [api_keys[k] EXCEPT !.last_used_at = now]
                       ELSE api_keys[k]]
    /\ kret' = [op |-> "get_current_user", api_key |-> Some(api_key),
                outcome |-> IF CurrentUserDetail(api_key) = "" THEN "return" ELSE "raise",
                status |-> IF CurrentUserDetail(api_key) = "" THEN 200 ELSE 401,
                detail |-> CurrentUserDetail(api_key)]
    /\ UNCHANGED <<now, ticks, gdevices, commands, streams, sent, registryVars, deriveVars,
                   liveVars, sessions, sret, issued, perm_in, perm_out>>

(***************************************************************************)
(* auth_api.py: the routes of /api/v1/auth/keys, each behind               *)
(* require_api_key, and require_api_type of backend/auth_middleware.py.    *)
(***************************************************************************)
CallerKeys == {Some(KeyDraw[i]) : i \in DOMAIN KeyDraw} \cup {Some(BREAK_GLASS_KEY)}
CallerSecrets == {Some("s1"), Some(BREAK_GLASS_SECRET)}
AllowedLists == {{"web"}, {"external", "internal"}, ApiTypes}

\* auth_info.get("api_type")
IdentityType(info) == info.api_type

\* The answer of a route to its caller: the 401 of require_api_key, 403
\* unless the identity's api_type is in allowed, else 200.
GateStatus(x_api_key, x_api_secret, allowed) ==
    LET caller == GateKeyOutcome(x_api_key, x_api_secret, TRUE)
    IN IF caller.outcome = "raise" THEN caller.status
       ELSE IF IdentityType(caller.info[1]) \notin allowed THEN 403
       ELSE 200

\* GET /keys
api_list_api_keys(x_api_key, x_api_secret) ==
    /\ api_keys' = GateKeyTouch(x_api_key, x_api_secret, TRUE)
    /\ kret' = [op |-> "list_api_keys", api_key |-> x_api_key,
                status |-> GateStatus(x_api_key, x_api_secret, {"web"})]
    /\ UNCHANGED <<now, ticks, gdevices, commands, streams, sent, registryVars, deriveVars,
                   liveVars, sessions, sret, issued, perm_in, perm_out>>

\* POST /keys: manager.create_api_key(request...)
api_create_api_key(x_api_key, x_api_secret, api_name, api_type) ==
    LET status == GateStatus(x_api_key, x_api_secret, {"web"})
        keys == GateKeyTouch(x_api_key, x_api_secret, TRUE)
    IN /\ FreeIds(keys) # {}
       /\ api_keys' = IF status = 200
                      THEN [keys EXCEPT ![NextKeyId(keys)] =
                               InsertedKey(NextKeyId(keys), api_name, None)]
                      ELSE keys
       /\ issued' = IF status = 200
                    THEN [issued EXCEPT ![NextKeyId(keys)] = Issued(api_type, "s1")]
                    ELSE issued
       /\ kret' = [op |-> "create_api_key", api_key |-> x_api_key, status |-> status]
       /\ UNCHANGED <<now, ticks, gdevices, commands, streams, sent, registryVars,
                      deriveVars, liveVars, sessions, sret, perm_in, perm_out>>

\* PUT /keys/{key_id}: manager.update_api_key(key_id, is_active=...); 404
\* when it returns False.
api_update_api_key(x_api_key, x_api_secret, key_id, is_active) ==
    LET status == GateStatus(x_api_key, x_api_secret, {"web"})
        keys == GateKeyTouch(x_api_key, x_api_secret, TRUE)
        found == keys[key_id].state = "row"
    IN /\ api_keys' = IF status = 200 /\ found
                      THEN [keys EXCEPT ![key_id] = [@ EXCEPT !.is_active = is_active]]
                      ELSE keys
       /\ kret' = [op |-> "update_api_key", api_key |-> x_api_key,
                   status |-> IF status = 200 /\ ~found THEN 404 ELSE status]
       /\ UNCHANGED <<now, ticks, gdevices, commands, streams, sent, registryVars,
                      deriveVars, liveVars, sessions, sret, issued, perm_in, perm_out>>

\* DELETE /keys/{key_id}: 400 for the caller's own id, else
\* manager.delete_api_key(key_id); 404 when it returns False.
api_delete_api_key(x_api_key, x_api_secret, key_id) ==
    LET status == GateStatus(x_api_key, x_api_secret, {"web"})
        caller == GateKeyOutcome(x_api_key, x_api_secret, TRUE)
        keys == GateKeyTouch(x_api_key, x_api_secret, TRUE)
        own == status = 200 /\ caller.info[1].id = key_id
        found == keys[key_id].state = "row"
    IN /\ api_keys' = IF status = 200 /\ ~own /\ found
                      THEN [keys EXCEPT ![key_id] = DeletedKey]
                      ELSE keys
       /\ kret' = [op |-> "delete_api_key", api_key |-> x_api_key,
                   status |-> IF status # 200 THEN status
                              ELSE IF own THEN 400
                              ELSE IF found THEN 200 ELSE 404]
       /\ UNCHANGED <<now, ticks, gdevices, commands, streams, sent, registryVars,
                      deriveVars, liveVars, sessions, sret, issued, perm_in, perm_out>>

\* require_api_type(allowed_types).api_type_checker for a request that
\* carries an API key and no bearer token.
api_type_checker(allowed_types, x_api_key, x_api_secret) ==
    /\ api_keys' = GateKeyTouch(x_api_key, x_api_secret, TRUE)
    /\ kret' = [op |-> "api_type_checker", api_key |-> x_api_key,
                allowed |-> allowed_types,
                status |-> GateStatus(x_api_key, x_api_secret, allowed_types)]
    /\ UNCHANGED <<now, ticks, gdevices, commands, streams, sent, registryVars, deriveVars,
                   liveVars, sessions, sret, issued, perm_in, perm_out>>

(***************************************************************************)
(* check_permissions and require_permissions, in both copies of            *)
(* auth_middleware.py.  A list is a sequence; a dict key that may be       *)
(* missing is None or Some(value); the value under 'api_key' is a string,  *)
(* [str |-> s], or a dict, [dict |-> d].                                   *)
(***************************************************************************)
MaxPerms == 2
PermNames == {"a", "b", "c", "*"}
RequiredNames == {"a", "b", "c"}

ListsOf(S) == UNION {[1..n -> S] : n \in 0..MaxPerms}
Elements(list) == {list[i] : i \in DOMAIN list}

PermEntries == {None} \cup {Some(l) : l \in ListsOf(PermNames)}

\* The identities the checks are given: the flat dict of verify_session,
\* the api_key_info of verify_api_key, whose 'api_key' is the key string,
\* and a session dict that nests the credential under 'api_key'.
AuthInfos ==
    {[api_key |-> None, permissions |-> p] : p \in PermEntries}
       \cup {[api_key |-> Some([str |-> KeyDraw[1]]), permissions |-> p] :
                p \in PermEntries}
       \cup {[api_key |-> Some([dict |-> [permissions |-> p]]), permissions |-> None] :
                p \in PermEntries}

PermChecks ==
    [auth_info : AuthInfos, required_permissions : ListsOf(RequiredNames)]

\* d.get('permissions', [])
GetPermissions(d) == IF d.permissions = None THEN <<>> ELSE d.permissions[1]

\* isinstance(auth_info['api_key'], dict)
IsDict(v) == "dict" \in DOMAIN v

\* all(perm in user_permissions for perm in required_permissions)
HasAll(user_permissions, required_permissions) ==
    \A i \in DOMAIN required_permissions :
       required_permissions[i] \in Elements(user_permissions)

\* backend/auth_middleware.py: the permissions of the nested credential when
\* 'api_key' holds a dict, else those of auth_info itself.
user_permissions(auth_info) ==
    IF auth_info.api_key # None /\ IsDict(auth_info.api_key[1])
    THEN GetPermissions(auth_info.api_key[1].dict)
    ELSE GetPermissions(auth_info)

\* backend/auth_middleware.py, check_permissions: True on an empty list,
\* else all(...).
check_permissions(auth_info, required_permissions) ==
    [outcome |-> "return",
     value |-> IF user_permissions(auth_info) = <<>> THEN TRUE
               ELSE HasAll(user_permissions(auth_info), required_permissions)]

\* auth_middleware.py, check_permissions: with 'api_key' in auth_info the
\* call auth_info['api_key'].get(...) raises AttributeError on a string;
\* no test for the empty list.
check_permissions_root(auth_info, required_permissions) ==
    IF auth_info.api_key # None /\ ~IsDict(auth_info.api_key[1])
    THEN [outcome |-> "raise", value |-> FALSE]
    ELSE [outcome |-> "return",
          value |-> HasAll(user_permissions(auth_info), required_permissions)]

\* require_permissions: 403 unless check_permissions returns True.
Checked(r) ==
    IF r.outcome = "raise" THEN [outcome |-> "raise", status |-> 500]
    ELSE IF r.value THEN [outcome |-> "return", status |-> 200]
    ELSE [outcome |-> "raise", status |-> 403]

NoCheck == [state |-> "none"]
Unchecked == [backend |-> None, root |-> None]

\* backend/auth_middleware.py, require_permissions.permission_checker
permission_checker ==
    /\ perm_out.backend = None
    /\ perm_out' = [perm_out EXCEPT !.backend =
                       Some(Checked(check_permissions(perm_in.auth_info,
                                                      perm_in.required_permissions)))]
    /\ UNCHANGED <<now, ticks, gdevices, commands, streams, sent, registryVars, deriveVars,
                   liveVars, sessVars, issued, kret, perm_in>>

\* auth_middleware.py, require_permissions.permission_checker
permission_checker_root ==
    /\ perm_out.root = None
    /\ perm_out' = [perm_out EXCEPT !.root =
                       Some(Checked(check_permissions_root(perm_in.auth_info,
                                                           perm_in.required_permissions)))]
    /\ UNCHANGED <<now, ticks, gdevices, commands, streams, sent, registryVars, deriveVars,
                   liveVars, sessVars, issued, kret, perm_in>>

(***************************************************************************)
(* The agent channel.                                                      *)
(***************************************************************************)
Init ==
    /\ now = 0
    /\ ticks = 0
    /\ gdevices = [d \in DeviceIds |-> NoDevice]
    /\ commands = <<>>
    /\ streams = [s \in StreamIds |-> ClosedStream]
    /\ sent = <<>>
    /\ devices = <<>>
    /\ regs = [p \in RegProcs |-> IdleReg]
    /\ id_in = [k \in Slots |-> EmptyPair]
    /\ id_out = [k \in Slots |-> NoId]
    /\ hbs = [p \in HbProcs |-> IdleHb]
    /\ sweep = IdleSweep
    /\ api_keys = [k \in ApiKeyIds |-> NoKey]
    /\ sessions = [t \in SessionTokens |-> NoSession]
    /\ sret = NoReturn
    /\ issued = [k \in ApiKeyIds |-> NoIssue]
    /\ kret = NoReturn
    /\ perm_in = NoCheck
    /\ perm_out = NoCheck

\* Spec: the command channel with two pull streams that stay connected, at
\* one instant of the clock.
Next ==
    \/ \E d \in DeviceIds, psk \in Psks : Register(d, psk, NoMetadata)
    \/ \E d \in DeviceIds : Len(commands) < MaxCommands /\ execute_command(d)
    \/ \E s \in StreamIds, d \in DeviceIds, t \in Tokens : PullOpen(s, d, t)
    \/ \E s \in StreamIds : PullQuery(s)
    \/ \E s \in StreamIds : PullClaim(s)
    \/ \E s \in StreamIds : PullYield(s)
    \/ \E d \in DeviceIds, t \in Tokens, c \in 1..MaxCommands, r \in ReportInputs :
          ReportResult(d, t, c, r)

Spec == Init /\ [][Next]_vars

\* SpecAgent: every operation of the agent channel and the passing of time,
\* with one pull stream that the caller may drop and reopen.
NextAgent ==
    \/ \E d \in DeviceIds, psk \in Psks, m \in AgentMetadata : Register(d, psk, m)
    \/ \E d \in DeviceIds, psk \in Psks : RegisterRejected(d, psk)
    \/ \E d \in DeviceIds, t \in Tokens : Heartbeat(d, t)
    \/ MonitorPass
    \/ \E dt \in TickSteps : Tick(dt)
    \/ \E d \in DeviceIds : Len(commands) < MaxAgentCommands /\ execute_command(d)
    \/ \E s \in AgentStreams, d \in DeviceIds, t \in Tokens : PullOpen(s, d, t)
    \/ \E s \in AgentStreams : PullQuery(s)
    \/ \E s \in AgentStreams : PullClaim(s)
    \/ \E s \in AgentStreams : PullYield(s)
    \/ \E s \in AgentStreams : Disconnect(s)
    \/ \E s \in AgentStreams : PullClose(s)
    \/ \E d \in DeviceIds, t \in Tokens, c \in 1..MaxAgentCommands, r \in ReportInputs :
          ReportResult(d, t, c, r)

SpecAgent == Init /\ [][NextAgent]_vars

\* SpecReg: the device registry with two concurrent register_device calls.
NextReg ==
    \/ \E p \in RegProcs, req \in RegRequests : RegSelect(p, req)
    \/ \E p \in RegProcs : RegWrite(p)
    \/ \E d \in RegDeviceIds, st \in DeviceStatuses : update_device_status(d, st)
    \/ \E d \in RegDeviceIds : delete_device(d)
    \/ \E dt \in TickSteps : Tick(dt)

SpecReg == Init /\ [][NextReg]_vars

\* SpecId: generate_device_id applied to every two pairs of strings of at
\* most MaxLen characters.
InitId ==
    /\ now = 0
    /\ ticks = 0
    /\ gdevices = [d \in DeviceIds |-> NoDevice]
    /\ commands = <<>>
    /\ streams = [s \in StreamIds |-> ClosedStream]
    /\ sent = <<>>
    /\ devices = <<>>
    /\ regs = [p \in RegProcs |-> IdleReg]
    /\ id_in \in [Slots -> Pairs]
    /\ id_out = [k \in Slots |-> NoId]
    /\ hbs = [p \in HbProcs |-> IdleHb]
    /\ sweep = IdleSweep
    /\ api_keys = [k \in ApiKeyIds |-> NoKey]
    /\ sessions = [t \in SessionTokens |-> NoSession]
    /\ sret = NoReturn
    /\ issued = [k \in ApiKeyIds |-> NoIssue]
    /\ kret = NoReturn
    /\ perm_in = NoCheck
    /\ perm_out = NoCheck

NextId == \E k \in Slots : Derive(k)

SpecId == InitId /\ [][NextId]_vars

\* SpecLive: heartbeats and the offline sweep of heartbeat.py on registered
\* devices, with two heartbeats and one sweep in progress at a time.
InitLive ==
    /\ now = 0
    /\ ticks = 0
    /\ gdevices = [d \in DeviceIds |-> NoDevice]
    /\ commands = <<>>
    /\ streams = [s \in StreamIds |-> ClosedStream]
    /\ sent = <<>>
    /\ devices = LiveTable
    /\ regs = [p \in RegProcs |-> IdleReg]
    /\ id_in = [k \in Slots |-> EmptyPair]
    /\ id_out = [k \in Slots |-> NoId]
    /\ hbs = [p \in HbProcs |-> IdleHb]
    /\ sweep = IdleSweep
    /\ api_keys = [k \in ApiKeyIds |-> NoKey]
    /\ sessions = [t \in SessionTokens |-> NoSession]
    /\ sret = NoReturn
    /\ issued = [k \in ApiKeyIds |-> NoIssue]
    /\ kret = NoReturn
    /\ perm_in = NoCheck
    /\ perm_out = NoCheck

NextLive ==
    \/ \E p \in HbProcs, d \in LiveDeviceIds : HbSelect(p, d, BareHeartbeat)
    \/ \E p \in HbProcs : HbClock(p)
    \/ \E p \in HbProcs : HbWrite(p)
    \/ SweepSelect
    \/ SweepWrite
    \/ \E dt \in LiveTickSteps : ticks < MaxLiveTicks /\ Elapse(dt)

SpecLive == InitLive /\ [][NextLive]_vars

\* SpecMeta: heartbeats that carry metrics and metadata, two at a time, for
\* one registered device and for an unknown one.
MetaDeviceIds == {LiveTable[1].device_id, UnknownDeviceId}

NextMeta ==
    \/ \E p \in HbProcs, d \in MetaDeviceIds, body \in HbInputs : HbSelect(p, d, body)
    \/ \E p \in HbProcs : HbClock(p)
    \/ \E p \in HbProcs : HbWrite(p)
    \/ \E dt \in LiveTickSteps : ticks < MaxMetaTicks /\ Elapse(dt)

SpecMeta == InitLive /\ [][NextMeta]_vars

\* SpecSess: the session manager and the one credential row it joins.
SessKeyIds == {1}

NextSess ==
    \/ \E e \in ExpiresDays :
          api_keys[1] = NoKey /\ create_api_key("n1", "web", "s1", e)
    \/ \E k \in SessKeyIds, a \in BOOLEAN : update_api_key(k, None, Some(a))
    \/ \E k \in SessKeyIds, c \in BOOLEAN : delete_api_key(k, c)
    \/ \E k \in SessKeyIds, h \in SessionHours : create_session(k, h)
    \/ \E tok \in SessionTokens : verify_session(tok)
    \/ \E tok \in SessionTokens, h \in ExtendHours : refresh_session(tok, h)
    \/ \E tok \in SessionTokens : delete_session(tok)
    \/ \E k \in SessKeyIds : delete_sessions_by_api_key(k)
    \/ cleanup_expired_sessions
    \/ \E dt \in SessTickSteps : ticks < MaxSessTicks /\ Elapse(dt)

SpecSess == Init /\ [][NextSess]_vars

\* SpecOut: logout and its neighbours, with sessions of two credentials.
MaxOutTicks == 1

NextOut ==
    \/ \E n \in ApiNames : create_api_key(n, "web", "s1", None)
    \/ \E k \in ApiKeyIds, a \in BOOLEAN : update_api_key(k, None, Some(a))
    \/ \E k \in ApiKeyIds, h \in SessionHours : create_session(k, h)
    \/ \E tok \in SessionTokens : verify_session(tok)
    \/ \E tok \in SessionTokens, h \in ExtendHours : refresh_session(tok, h)
    \/ \E tok \in SessionTokens : delete_session(tok)
    \/ \E k \in ApiKeyIds : delete_sessions_by_api_key(k)
    \/ cleanup_expired_sessions
    \/ \E dt \in SessTickSteps : ticks < MaxOutTicks /\ Elapse(dt)

SpecOut == Init /\ [][NextOut]_vars

\* SpecCred: the credential store with two credentials, checked by key and
\* secret through the manager and through the gate.
NextCred ==
    \/ \E n \in ApiNames, e \in ExpiresDays : create_api_key(n, "web", "s1", e)
    \/ \E k \in ApiKeyIds, n \in {None} \cup {Some(x) : x \in ApiNames},
          a \in {None, Some(TRUE), Some(FALSE)} : update_api_key(k, n, a)
    \/ \E k \in ApiKeyIds : delete_api_key(k, TRUE)
    \/ \E key \in PresentedKeys, s \in PresentedSecrets, r \in BOOLEAN :
          verify_api_key(key, s, r)
    \/ \E key \in KeyHeaders, s \in SecretHeaders : require_api_key(key, s, TRUE)
    \/ \E dt \in CredTickSteps : ticks < MaxCredTicks /\ Elapse(dt)

SpecCred == Init /\ [][NextCred]_vars

\* SpecPerm: the permission check of both copies applied to every identity
\* and every required list of at most MaxPerms entries.
InitPerm ==
    /\ now = 0
    /\ ticks = 0
    /\ gdevices = [d \in DeviceIds |-> NoDevice]
    /\ commands = <<>>
    /\ streams = [s \in StreamIds |-> ClosedStream]
    /\ sent = <<>>
    /\ devices = <<>>
    /\ regs = [p \in RegProcs |-> IdleReg]
    /\ id_in = [k \in Slots |-> EmptyPair]
    /\ id_out = [k \in Slots |-> NoId]
    /\ hbs = [p \in HbProcs |-> IdleHb]
    /\ sweep = IdleSweep
    /\ api_keys = [k \in ApiKeyIds |-> NoKey]
    /\ sessions = [t \in SessionTokens |-> NoSession]
    /\ sret = NoReturn
    /\ issued = [k \in ApiKeyIds |-> NoIssue]
    /\ kret = NoReturn
    /\ perm_in \in PermChecks
    /\ perm_out = Unchecked

NextPerm ==
    \/ permission_checker
    \/ permission_checker_root

SpecPerm == InitPerm /\ [][NextPerm]_vars

\* SpecGate: requests through the gate with a bearer token, an API key, or
\* both, for sessions and credentials that are valid, expired or inactive.
NextGate ==
    \/ create_api_key("n1", "web", "s1", None)
    \/ \E k \in ApiKeyIds, a \in BOOLEAN : update_api_key(k, None, Some(a))
    \/ \E k \in ApiKeyIds, h \in SessionHours : create_session(k, h)
    \/ \E authorization \in AuthHeaders, x_api_key \in GateKeyHeaders,
          x_api_secret \in GateSecretHeaders :
          verify_session_or_api_key(authorization, x_api_key, x_api_secret)
    \/ \E dt \in GateTickSteps : ticks < MaxGateTicks /\ Elapse(dt)

SpecGate == Init /\ [][NextGate]_vars

\* SpecCrud: credentials of every api_type, created by the manager, and the
\* routes of auth_api.py called with their keys and with the break-glass pair.
NextCrud ==
    \/ \E t \in ApiTypes : create_api_key("n1", t, "s1", None)
    \/ \E key \in CallerKeys, s \in CallerSecrets : api_list_api_keys(key, s)
    \/ \E key \in CallerKeys, s \in CallerSecrets, t \in ApiTypes :
          api_create_api_key(key, s, "n2", t)
    \/ \E key \in CallerKeys, s \in CallerSecrets, k \in ApiKeyIds, a \in BOOLEAN :
          api_update_api_key(key, s, k, a)
    \/ \E key \in CallerKeys, s \in CallerSecrets, k \in ApiKeyIds :
          api_delete_api_key(key, s, k)
    \/ \E allowed \in AllowedLists, key \in CallerKeys, s \in CallerSecrets :
          api_type_checker(allowed, key, s)

SpecCrud == Init /\ [][NextCrud]_vars

\* SpecDeny: the three authentication dependencies called with credentials
\* that are missing, unknown, inactive, expired and valid.
MaxDenyTicks == 1

NextDeny ==
    \/ \E e \in ExpiresDays :
          api_keys[1] = NoKey /\ create_api_key("n1", "web", "s1", e)
    \/ \E k \in SessKeyIds, a \in BOOLEAN : update_api_key(k, None, Some(a))
    \/ \E k \in SessKeyIds, h \in SessionHours : create_session(k, h)
    \/ \E key \in KeyHeaders, s \in GateSecretHeaders : require_api_key(key, s, TRUE)
    \/ \E authorization \in AuthHeaders : require_session(authorization)
    \/ \E key \in PresentedKeys : get_current_user(key)
    \/ \E dt \in GateTickSteps : ticks < MaxDenyTicks /\ Elapse(dt)

SpecDeny == Init /\ [][NextDeny]_vars

\* SpecCmd: command creation for devices that are unknown, online and
\* offline, among commands that are pending and reported.
MaxCmdCommands == 2
MaxCmdTicks == 1

NextCmd ==
    \/ \E d \in DeviceIds : Register(d, AgentPsk, NoMetadata)
    \/ MonitorPass
    \/ \E dt \in TickSteps : ticks < MaxCmdTicks /\ Elapse(dt)
    \/ \E d \in DeviceIds : Len(commands) < MaxCmdCommands /\ execute_command(d)
    \/ \E d \in DeviceIds : execute_command_rejected(d)
    \/ \E d \in DeviceIds, c \in 1..MaxCmdCommands, r \in ReportInputs :
          ReportResult(d, TokenDraw[d], c, r)

SpecCmd == Init /\ [][NextCmd]_vars

\* SpecTok: the agent channel where a device registers first without
\* metadata and re-registers with metadata.
MaxTokCommands == 1
MaxTokTicks == 1
ReMetadata == [cpu_cores |-> 8]

NextTok ==
    \/ \E d \in DeviceIds : gdevices[d] = NoDevice /\ Register(d, AgentPsk, NoMetadata)
    \/ \E d \in DeviceIds : gdevices[d] # NoDevice /\ Register(d, AgentPsk, ReMetadata)
    \/ \E d \in DeviceIds, t \in Tokens : Heartbeat(d, t)
    \/ MonitorPass
    \/ \E dt \in TickSteps : ticks < MaxTokTicks /\ Elapse(dt)
    \/ \E d \in DeviceIds : Len(commands) < MaxTokCommands /\ execute_command(d)
    \/ \E s \in AgentStreams, d \in DeviceIds, t \in Tokens : PullOpen(s, d, t)
    \/ \E s \in AgentStreams : PullQuery(s)
    \/ \E s \in AgentStreams : PullClaim(s)
    \/ \E s \in AgentStreams : PullYield(s)
    \/ \E s \in AgentStreams : Disconnect(s)
    \/ \E s \in AgentStreams : PullClose(s)
    \/ \E d \in DeviceIds, t \in Tokens, c \in 1..MaxTokCommands, r \in ReportInputs :
          ReportResult(d, t, c, r)

SpecTok == Init /\ [][NextTok]_vars

\* SpecBad: the agent channel called with registered and with unregistered
\* (device_id, token) pairs and with both PSKs, around one command.
MaxBadCommands == 1

NextBad ==
    \/ \E d \in DeviceIds : Register(d, AgentPsk, NoMetadata)
    \/ \E d \in DeviceIds, psk \in Psks : RegisterInvalidPsk(d, psk)
    \/ \E d \in DeviceIds, t \in Tokens : Heartbeat(d, t)
    \/ \E d \in DeviceIds, t \in Tokens : HeartbeatInvalidToken(d, t)
    \/ \E d \in DeviceIds : Len(commands) < MaxBadCommands /\ execute_command(d)
    \/ \E s \in AgentStreams, d \in DeviceIds, t \in Tokens : PullOpen(s, d, t)
    \/ \E s \in AgentStreams, d \in DeviceIds, t \in Tokens : PullInvalidToken(s, d, t)
    \/ \E s \in AgentStreams : PullQuery(s)
    \/ \E s \in AgentStreams : PullClaim(s)
    \/ \E s \in AgentStreams : PullYield(s)
    \/ \E d \in DeviceIds, t \in Tokens, c \in 1..MaxBadCommands, r \in ReportInputs :
          ReportResult(d, t, c, r)
    \/ \E d \in DeviceIds, t \in Tokens, c \in 1..MaxBadCommands, r \in ReportInputs :
          ReportInvalidToken(d, t, c, r)

SpecBad == Init /\ [][NextBad]_vars

\* SpecFair: one device on one pull stream that stays connected while the
\* operator creates commands, more than PULL_LIMIT of them; the scheduler
\* keeps the stream's loop running (time.sleep returns, the caller takes
\* what is yielded).
MaxFairCommands == 11
FairDevice == "d1"

NextFair ==
    \/ Register(FairDevice, AgentPsk, NoMetadata)
    \/ Len(commands) < MaxFairCommands /\ execute_command(FairDevice)
    \/ \E s \in AgentStreams : PullOpen(s, FairDevice, TokenDraw[FairDevice])
    \/ \E s \in AgentStreams : PullQuery(s)
    \/ \E s \in AgentStreams : PullClaim(s)
    \/ \E s \in AgentStreams : PullYield(s)

SpecFair ==
    /\ Init
    /\ [][NextFair]_vars
    /\ \A s \in AgentStreams : WF_vars(PullStep(s))

(***************************************************************************)
(* Command lifecycle.                                                      *)
(***************************************************************************)
Statuses == {"pending", "running", "completed", "failed"}
Terminal == {"completed", "failed"}

LegalTransition(a, b) ==
    \/ a = b
    \/ a = "pending" /\ b = "running"
    \/ a = "running" /\ b \in Terminal

NeverReported(cmd) == cmd.executed_at = -1

SameDevice(i, j) == commands[i].device_id = commands[j].device_id

\* C1: the status of a command is always one of pending, running, completed,
\* failed, and the only status changes that ever occur are pending->running,
\* running->completed and running->failed.
C1_OnlyLegalTransitions ==
    [][\A i \in DOMAIN commands :
          /\ commands'[i].status \in Statuses
          /\ LegalTransition(commands[i].status, commands'[i].status)]_vars

\* C2: a ReportResult call on a command that is already completed or failed
\* leaves the command's status and all its result fields as they were.
C2_ReportIdempotentOnTerminal ==
    [][\A d \in DeviceIds, t \in Tokens, c \in 1..MaxCommands, r \in ReportInputs :
          (ReportResult(d, t, c, r) /\ commands[c].status \in Terminal)
              => commands'[c] = commands[c]]_vars

\* C3: no step of any operation (pull, report, heartbeat, registration,
\* offline sweep, disconnect) takes a command that has left pending back to
\* pending, and a running command leaves running only by a ReportResult on
\* it: unreported, it stays running.
C3_NoRegressNoRequeue ==
    [][\A i \in DOMAIN commands :
          /\ commands[i].status # "pending" => commands'[i].status # "pending"
          /\ (commands[i].status = "running" /\ commands'[i].status # "running")
                => \E d \in DeviceIds, t \in Tokens, r \in ReportInputs :
                      ReportResult(d, t, i, r)]_vars

\* A delivered, unreported command is still running after its device was
\* swept offline and its stream was dropped and closed.
C3_Witness ==
    \E i \in DOMAIN commands :
        /\ commands[i].status = "running"
        /\ NeverReported(commands[i])
        /\ sent[i] = 1
        /\ gdevices[commands[i].device_id].status = "offline"
        /\ \A s \in StreamIds : streams[s].pc = "closed"

\* C4: with two pull streams open for one device, no command is yielded by
\* more than one stream.
C4_AtMostOnceClaim == \A i \in DOMAIN sent : sent[i] <= 1

\* C5: the pull's claim step leaves the command running; a command that was
\* sent is never pending again, and no later poll of any stream selects a
\* command that was already sent, also when commands were created meanwhile.
C5_NoRepeat ==
    [][/\ \A i \in DOMAIN sent : sent[i] > 0 => commands'[i].status # "pending"
       /\ \A s \in StreamIds :
             /\ PullClaim(s) => commands'[Head(streams[s].batch)].status = "running"
             /\ PullQuery(s) =>
                   \A k \in DOMAIN streams'[s].batch : sent[streams'[s].batch[k]] = 0]_vars

\* The only stream ever opened sent command 1 and is back at its poll, with
\* a newer command of the same device pending.
C5_Witness ==
    \E s \in StreamIds :
        /\ streams[s].pc = "poll"
        /\ \A o \in StreamIds \ {s} : streams[o].pc = "closed"
        /\ Len(commands) = 2
        /\ sent[1] = 1
        /\ commands[1].device_id = streams[s].device_id
        /\ commands[2].device_id = streams[s].device_id
        /\ commands[2].status = "pending"

\* C6 as stated: of two commands of one device, the one created first is
\* sent first: when the later one was sent and the earlier one was claimed
\* by a pull (it is running and unreported), the earlier one was sent too.
C6_SentInCreationOrder ==
    \A i \in DOMAIN commands : \A j \in DOMAIN commands :
        (i < j /\ SameDevice(i, j) /\ sent[j] > 0
           /\ commands[i].status = "running" /\ NeverReported(commands[i]))
            => sent[i] > 0

StrictlyIncreasing(q) == \A k \in 1..(Len(q) - 1) : q[k] < q[k + 1]

\* C6 amended: a pull stream claims a command only for its own device and
\* only when no older command of that device is still pending, and the
\* commands a stream still has to send are its own device's, in creation
\* order.
C6_FifoClaim ==
    [][\A s \in StreamIds :
          /\ PullClaim(s) =>
                LET i == Head(streams[s].batch)
                IN /\ commands[i].device_id = streams[s].device_id
                   /\ \A j \in 1..(i - 1) :
                         ~(SameDevice(i, j) /\ commands[j].status = "pending")
          /\ StrictlyIncreasing(streams'[s].batch)
          /\ \A k \in DOMAIN streams'[s].batch :
                commands'[streams'[s].batch[k]].device_id = streams'[s].device_id]_vars

\* A stream has sent command 1 and has just claimed command 2 of the same
\* device, while the other device owns nothing.
C6_Witness ==
    \E s \in StreamIds :
        /\ streams[s].pc = "yield"
        /\ streams[s].batch = <<2>>
        /\ SameDevice(1, 2)
        /\ sent[1] = 1
        /\ commands[2].status = "running"

(***************************************************************************)
(* Device registry.                                                        *)
(***************************************************************************)
SamePair(row, req) ==
    /\ row.ip_address = req.ip_address
    /\ row.hostname = req.hostname

C8_ReRegister ==
    [][\A p \in RegProcs :
          (RegWrite(p) /\ regs[p].existing) =>
              \A i \in RowsWithId(devices, regs[p].device_id) :
                  SamePair(devices[i], regs[p].req) =>
                      LET ret == regs'[p].ret
                      IN /\ ret.device_id = devices[i].device_id
                         /\ ret.os_version = regs[p].req.os_version
                         /\ ret.agent_version = regs[p].req.agent_version
                         /\ ret.status = "online"
                         /\ ret.last_seen_at >= devices[i].last_seen_at
                         /\ devices'[i] = ret]_vars

\* A call with a changed os version has returned the row that the same pair
\* inserted at an earlier time.
C8_Witness ==
    \E p \in RegProcs :
        /\ regs[p].pc = "done"
        /\ regs[p].existing
        /\ regs[p].ret # NoRow
        /\ regs[p].req.os_version = "22.04.1"
        /\ regs[p].ret.device_name = <<regs[p].req.hostname, regs[p].req.ip_address>>
        /\ regs[p].ret.registered_at < regs[p].ret.last_seen_at
        /\ regs[p].ret.status = "online"

\* C9: a register_device call on an existing row keeps every stored
\* metadata key that the call's metadata does not name, with its old value.
C9_MetadataMerged ==
    [][\A p \in RegProcs :
          (RegWrite(p) /\ regs[p].existing) =>
              \A i \in RowsWithId(devices, regs[p].device_id) :
                  \A k \in DOMAIN devices[i].metadata
                              \ DOMAIN OrEmpty(regs[p].req.metadata) :
                      /\ k \in DOMAIN devices'[i].metadata
                      /\ devices'[i].metadata[k] = devices[i].metadata[k]]_vars

\* C10: two (ip_address, hostname) pairs that differ in either field get
\* different device ids (the digest being free of collisions, different
\* identity strings).
C10_DistinctPairsDistinctIds ==
    \A k1 \in Slots : \A k2 \in Slots :
        (id_out[k1] # NoId /\ id_out[k2] # NoId /\ id_in[k1] # id_in[k2])
            => id_out[k1] # id_out[k2]

(***************************************************************************)
(* Liveness tracking.                                                      *)
(***************************************************************************)
RowOf(device_id) == devices[CHOOSE i \in RowsWithId(devices, device_id) : TRUE]

HeartbeatsAtRest == \A p \in HbProcs : hbs[p].pc \in {"idle", "done"}
SweepAtRest == sweep.pc \in {"idle", "done"}

\* C11: the write of a heartbeat leaves its device, whatever its status was,
\* online with last-seen equal to the time the heartbeat read, and a sweep
\* that starts at that same time does not select the device; so a device
\* the sweep flipped at t0+301 is online again after a heartbeat at t0+302.
C11_HeartbeatOnline ==
    [][/\ \A p \in HbProcs :
             HbWrite(p) =>
                \A i \in DOMAIN devices :
                    devices[i].device_id = hbs[p].device_id
                        => /\ devices'[i].status = "online"
                           /\ devices'[i].last_seen_at = hbs[p].t
       /\ SweepSelect =>
             \A i \in DOMAIN devices :
                 (devices[i].status = "online" /\ devices[i].last_seen_at = now)
                     => devices[i].device_id \notin sweep'.offline_devices]_vars

\* The device was flipped by the sweep that ran at 301 s and is online with
\* last-seen 302 s after the heartbeat that followed it.
C11_Witness ==
    /\ now = HEARTBEAT_TIMEOUT + 2
    /\ sweep.pc = "done"
    /\ HeartbeatsAtRest
    /\ \E i \in DOMAIN devices :
          /\ devices[i].device_id \in sweep.offline_devices
          /\ devices[i].status = "online"
          /\ devices[i].last_seen_at = now

\* C12: a pass of the offline sweep sets status = offline on exactly the
\* devices that are online with last-seen older than now - timeout, and
\* changes no other device and no other field of a device it flips.
C12_SweepFlipsOnlyStatus ==
    [][MonitorPass =>
          \A d \in DeviceIds :
              gdevices'[d] = IF TimedOut(gdevices[d])
                             THEN [gdevices[d] EXCEPT !.status = "offline"]
                             ELSE gdevices[d]]_vars

\* C13: when the sweep and the heartbeats have all completed, no device is
\* offline with a last-seen that is within the timeout: an offline marking
\* that overlapped a heartbeat does not outlast it.
C13_OfflineOnlyTransient ==
    (SweepAtRest /\ HeartbeatsAtRest)
        => \A i \in DOMAIN devices :
               ~(/\ devices[i].status = "offline"
                 /\ devices[i].last_seen_at >= now - HEARTBEAT_TIMEOUT)

\* C14: the write of a heartbeat never moves a device's last-seen back:
\* after it, last-seen is greater than or equal to what it was before.
C14_LastSeenAdvances ==
    [][\A p \in HbProcs :
          HbWrite(p) =>
             \A i \in DOMAIN devices :
                 devices'[i].last_seen_at >= devices[i].last_seen_at]_vars

\* C15: a heartbeat for a device id that has no row ends at once with the
\* not-found error, and leaves the table as it was: no row is added and no
\* row's status, last-seen or metadata changes.
C15_UnknownDeviceNotFound ==
    [][\A p \in HbProcs, d \in LiveDeviceIds, body \in HbInputs :
          (HbSelect(p, d, body) /\ RowsWithId(devices, d) = {})
              => /\ hbs'[p].pc = "done"
                 /\ hbs'[p].ret = "not_found"
                 /\ devices' = devices]_vars

\* A heartbeat for the unknown id has returned not-found while the other
\* caller's heartbeat for a registered device is under way.
C15_Witness ==
    \E p, q \in HbProcs :
        /\ hbs[p].pc = "done"
        /\ hbs[p].ret = "not_found"
        /\ hbs[q].pc = "timed"
        /\ RowsWithId(devices, UnknownDeviceId) = {}

\* The top-level keys a heartbeat names: those of its metadata, and with
\* metrics the two keys the metrics are stored under.
NamedKeys(call) ==
    (IF Truthy(call.metadata) THEN DOMAIN call.metadata[1] ELSE {})
        \cup (IF Truthy(call.metrics) THEN {"metrics", "metrics_updated_at"} ELSE {})

\* C16: the write of a heartbeat that read the metadata now stored keeps
\* every stored key the heartbeat does not name, at top level and inside the
\* stored metrics object, and a heartbeat with neither metrics nor metadata
\* leaves the stored metadata unchanged.
C16_MetadataMergeKeepsKeys ==
    [][\A p \in HbProcs :
          (HbWrite(p) /\ RowsWithId(devices, hbs[p].device_id) # {}
                      /\ RowOf(hbs[p].device_id).metadata = hbs[p].device_metadata)
              => \A i \in RowsWithId(devices, hbs[p].device_id) :
                    LET old == devices[i].metadata
                        new == devices'[i].metadata
                        call == hbs[p]
                    IN /\ \A k \in DOMAIN old \ NamedKeys(call) :
                              k \in DOMAIN new /\ new[k] = old[k]
                       /\ (Truthy(call.metrics) /\ "metrics" \in DOMAIN old)
                              => \A k \in DOMAIN old["metrics"] \ DOMAIN call.metrics[1] :
                                     /\ k \in DOMAIN new["metrics"]
                                     /\ new["metrics"][k] = old["metrics"][k]
                       /\ (~Truthy(call.metrics) /\ ~Truthy(call.metadata))
                              => new = old]_vars

(***************************************************************************)
(* Sessions.                                                               *)
(***************************************************************************)
\* A credential is usable iff it is active and has no expiry or an expiry
\* in the future.
CredentialValid(k) ==
    /\ IsKeyRow(k)
    /\ api_keys[k].is_active
    /\ (api_keys[k].expires_at = NoExpiry \/ api_keys[k].expires_at > now)

SessionValid(tok) ==
    /\ IsSessionRow(tok)
    /\ now < sessions[tok].expires_at
    /\ CredentialValid(sessions[tok].api_key_id)

\* C17: verify(token) succeeds if and only if the token names a stored
\* session, now is before the session's expiry and the session's credential
\* is valid, that is active and not past its own expiry.
C17_VerifyIffValid ==
    [][\A tok \in SessionTokens :
          verify_session(tok) => (sret'.ok <=> SessionValid(tok))]_vars

\* C18: a successful verify sets the session's last-activity to now and
\* leaves its expiry and every other session unchanged, a failed verify
\* changes no session, and the expiry of a session that stays stored changes
\* only in a step of refresh on its token.
C18_ExpiryOnlyByRefresh ==
    [][/\ \A tok \in SessionTokens :
             verify_session(tok) =>
                /\ sret'.ok => sessions' = [sessions EXCEPT ![tok].last_activity_at = now]
                /\ ~sret'.ok => sessions' = sessions
       /\ \A tok \in SessionTokens :
             (/\ IsSessionRow(tok)
              /\ sessions'[tok].state = "row"
              /\ sessions'[tok].expires_at # sessions[tok].expires_at)
                 => \E h \in ExtendHours : refresh_session(tok, h)]_vars

\* A session verified later than it was created: its last-activity is the
\* time of the verify, its expiry still the one it was created with.
C18_Witness ==
    /\ sret.op = "verify"
    /\ sret.ok
    /\ IsSessionRow(sret.token)
    /\ sessions[sret.token].last_activity_at = now
    /\ sessions[sret.token].created_at < now
    /\ sessions[sret.token].expires_at
          = sessions[sret.token].created_at + DEFAULT_SESSION_HOURS * HOUR

Expired(tok) == IsSessionRow(tok) /\ sessions[tok].expires_at < now

\* C19: a refresh changes at most the session of its token, and only if
\* that session is stored and not expired; on an expired or unknown token it
\* returns false and changes no session; and a session that is expired is,
\* after any step, still expired or no longer stored.
C19_RefreshOnlyUnexpired ==
    [][/\ \A tok \in SessionTokens, h \in ExtendHours :
             refresh_session(tok, h) =>
                /\ sessions' # sessions => IsSessionRow(tok) /\ ~Expired(tok)
                /\ \A other \in SessionTokens \ {tok} : sessions'[other] = sessions[other]
                /\ (~IsSessionRow(tok) \/ Expired(tok))
                      => ~sret'.ok /\ sessions' = sessions
       /\ \A tok \in SessionTokens :
             Expired(tok) =>
                \/ sessions'[tok].state # "row"
                \/ sessions'[tok].expires_at < now']_vars

\* A refresh of an expired session has just returned false.
C19_Witness ==
    /\ sret.op = "refresh"
    /\ ~sret.ok
    /\ Expired(sret.token)

\* The session still has the expiry create_session gave it with 72 hours.
CreatedWith72h(tok) ==
    /\ IsSessionRow(tok)
    /\ sessions[tok].expires_at = sessions[tok].created_at + DEFAULT_SESSION_HOURS * HOUR

\* C20: a verify of a session created at T with 72 hours, never refreshed
\* and with a valid credential, succeeds at every time before T + 72 h and
\* fails at every time after T + 72 h.
C20_SeventyTwoHours ==
    [][\A tok \in SessionTokens :
          (/\ verify_session(tok)
           /\ CreatedWith72h(tok)
           /\ CredentialValid(sessions[tok].api_key_id))
              => /\ now < sessions[tok].created_at + 72 * HOUR => sret'.ok
                 /\ now > sessions[tok].created_at + 72 * HOUR => ~sret'.ok]_vars

\* The session verified at T + 71 h 59 min and has just failed to verify at
\* T + 72 h 1 min.
C20_Witness ==
    /\ sret.op = "verify"
    /\ ~sret.ok
    /\ CreatedWith72h(sret.token)
    /\ CredentialValid(sessions[sret.token].api_key_id)
    /\ sessions[sret.token].last_activity_at
          = sessions[sret.token].created_at + 71 * HOUR + 59 * 60
    /\ now = sessions[sret.token].created_at + 72 * HOUR + 60

\* C21: a verify that fails, whether its token is unknown, its session
\* expired, its credential inactive or its expired session already removed
\* by cleanup, changes no session and no credential and returns the same
\* value; and a cleanup pass changes the outcome of verify for no token.
C21_FailuresIndistinguishable ==
    [][/\ \A tok \in SessionTokens :
             (verify_session(tok) /\ ~Verifies(tok))
                => /\ sessions' = sessions
                   /\ api_keys' = api_keys
                   /\ sret' = [op |-> "verify", token |-> tok, ok |-> FALSE]
       /\ cleanup_expired_sessions
             => \A tok \in SessionTokens : Verifies(tok)' <=> Verifies(tok)]_vars

\* A cleanup pass has just removed an expired session while another session,
\* whose expiry is this very instant, stays stored.
C21_Witness ==
    /\ sret.op = "cleanup"
    /\ sret.count = 1
    /\ \E tok \in SessionTokens : IsSessionRow(tok) /\ sessions[tok].expires_at = now

\* C22: a deleted session is never stored again and never verifies again,
\* whatever step follows (a refresh included); delete(token) removes the
\* session of its token and deleteAllFor(id) removes every session issued
\* against that credential; and neither changes any other session or any
\* credential.
C22_DeletedStaysDeleted ==
    [][/\ \A tok \in SessionTokens :
             sessions[tok] = DeletedSession
                => sessions'[tok] = DeletedSession /\ ~Verifies(tok)'
       /\ \A tok \in SessionTokens :
             delete_session(tok) =>
                /\ sessions'[tok].state # "row"
                /\ \A other \in SessionTokens \ {tok} : sessions'[other] = sessions[other]
                /\ api_keys' = api_keys
       /\ \A k \in ApiKeyIds :
             delete_sessions_by_api_key(k) =>
                /\ \A tok \in SessionTokens :
                      sessions'[tok] = IF IsSessionRow(tok) /\ sessions[tok].api_key_id = k
                                       THEN DeletedSession ELSE sessions[tok]
                /\ api_keys' = api_keys]_vars

\* deleteAllFor has just removed the session of one credential, and the
\* session of the other credential is still stored.
C22_Witness ==
    /\ sret.op = "delete_sessions_by_api_key"
    /\ sret.count = 1
    /\ \E tok \in SessionTokens :
          IsSessionRow(tok) /\ sessions[tok].api_key_id # sret.api_key_id

(***************************************************************************)
(* Credentials.                                                            *)
(***************************************************************************)
\* The secret presented is not the one the stored credential of this key
\* was created with.
WrongSecret(api_key, secret) ==
    \E k \in KeyRows(api_key) : issued[k].secret # secret

\* C23: for every stored credential, verify(key, secret) fails whenever the
\* secret is not the one the credential was created with, the empty and the
\* missing secret included, through the manager and through the gate's
\* API-key path.
C23_WrongSecretFails ==
    [][/\ \A key \in PresentedKeys, s \in PresentedSecrets, r \in BOOLEAN :
             (verify_api_key(key, s, r) /\ WrongSecret(key, s))
                => kret'.info = None
       /\ \A key \in KeyHeaders, s \in SecretHeaders, r \in BOOLEAN :
             (require_api_key(key, s, r) /\ key # None
                                         /\ WrongSecret(key[1], SecretOrEmpty(s)))
                => kret'.outcome = "raise"]_vars

StoredKeys == PresentedKeys \ {BREAK_GLASS_KEY}

\* active, and no expiry or an expiry in the future
UsableStrict(k) ==
    /\ api_keys[k].is_active
    /\ (api_keys[k].expires_at = NoExpiry \/ api_keys[k].expires_at > now)

\* active, and no expiry or an expiry that is not in the past
UsableUpToExpiry(k) ==
    /\ api_keys[k].is_active
    /\ (api_keys[k].expires_at = NoExpiry \/ api_keys[k].expires_at >= now)

\* Only update_api_key with is_active True makes an inactive credential
\* active again.
OnlyUpdateReactivates ==
    \A k \in ApiKeyIds :
       (IsKeyRow(k) /\ ~api_keys[k].is_active
                    /\ api_keys'[k].state = "row" /\ api_keys'[k].is_active)
          => \E n \in {None} \cup {Some(x) : x \in ApiNames} :
                update_api_key(k, n, Some(TRUE))

\* C24: verify(key, secret) of a key other than the break-glass key, with
\* the store reachable, succeeds if and only if the key names a stored
\* credential that is active and has no expiry or an expiry in the future;
\* a failed verify leaves every row, last-used included, as it was; and an
\* inactive credential becomes active only by an update with active = true.
C24_UsableIffActiveUnexpired ==
    [][/\ \A key \in StoredKeys :
             (/\ kret'.op = "verify_api_key"
              /\ kret'.api_key = Some(key)
              /\ \E s \in PresentedSecrets : verify_api_key(key, s, TRUE))
                => /\ kret'.info # None <=> \E k \in KeyRows(key) : UsableStrict(k)
                   /\ kret'.info = None => api_keys' = api_keys
       /\ OnlyUpdateReactivates]_vars

\* C24 as the code has it: the same with an expiry that is not in the past,
\* so that a credential still verifies at the instant of its expiry.
C24_UsableIffActiveNotPast ==
    [][/\ \A key \in StoredKeys :
             (/\ kret'.op = "verify_api_key"
              /\ kret'.api_key = Some(key)
              /\ \E s \in PresentedSecrets : verify_api_key(key, s, TRUE))
                => /\ kret'.info # None <=> \E k \in KeyRows(key) : UsableUpToExpiry(k)
                   /\ kret'.info = None => api_keys' = api_keys
       /\ OnlyUpdateReactivates]_vars

\* A credential that verified earlier and was deactivated since has just
\* failed to verify; its last-used is still the time of the earlier verify.
C24_Witness ==
    /\ kret.op = "verify_api_key"
    /\ kret.outcome = "return"
    /\ kret.info = None
    /\ \E k \in KeyRows(kret.api_key[1]) :
          /\ ~api_keys[k].is_active
          /\ api_keys[k].last_used_at # NeverUsed
          /\ api_keys[k].last_used_at < now

\* C25: verify of the break-glass key with the break-glass secret returns,
\* in every state of the credential store and also when the store cannot be
\* reached, a web-class identity with the wildcard permission, and changes
\* no row; the break-glass key with any other secret is answered from the
\* store like any other key and, no row having that key, gets no identity.
C25_BreakGlassAlwaysVerifies ==
    [][(kret'.op = "verify_api_key" /\ kret'.api_key = Some(BREAK_GLASS_KEY)) =>
          /\ \A r \in BOOLEAN :
                verify_api_key(BREAK_GLASS_KEY, BREAK_GLASS_SECRET, r) =>
                   /\ kret'.outcome = "return"
                   /\ kret'.info # None
                   /\ kret'.info[1].api_type = "web"
                   /\ kret'.info[1].permissions = <<"*">>
                   /\ api_keys' = api_keys
          /\ \A s \in PresentedSecrets \ {BREAK_GLASS_SECRET}, r \in BOOLEAN :
                verify_api_key(BREAK_GLASS_KEY, s, r) => kret'.info = None]_vars

\* The break-glass pair has just verified against a store whose only
\* credentials are a deactivated one and a deleted one.
C25_Witness ==
    /\ kret.op = "verify_api_key"
    /\ kret.info = Some(EmergencyInfo)
    /\ \E k \in ApiKeyIds : IsKeyRow(k) /\ ~api_keys[k].is_active
    /\ \E k \in ApiKeyIds : api_keys[k] = DeletedKey

\* C26: in every reachable state no two stored credentials share a name
\* (create and update refuse a name that another credential uses).
C26_NamesUnique ==
    \A j, k \in ApiKeyIds :
       (j # k /\ IsKeyRow(j) /\ IsKeyRow(k)) => api_keys[j].name # api_keys[k].name

(***************************************************************************)
(* Permissions.                                                            *)
(***************************************************************************)
Passes(checked) == checked # None /\ checked[1].status = 200
Fails(checked) == checked # None /\ checked[1].status # 200

\* P contains the wildcard or every element of R.
Granted(P, R) == "*" \in Elements(P) \/ Elements(R) \subseteq Elements(P)

\* C27: for an identity with a non-empty permission set P and a required
\* list R, requirePermissions passes if and only if P contains "*" or every
\* element of R is in P.
C27_PassIffWildcardOrAll ==
    LET P == user_permissions(perm_in.auth_info)
        R == perm_in.required_permissions
    IN P # <<>> =>
          /\ Passes(perm_out.backend) => Granted(P, R)
          /\ Fails(perm_out.backend) => ~Granted(P, R)
          /\ Passes(perm_out.root) => Granted(P, R)
          /\ Fails(perm_out.root) => ~Granted(P, R)

\* C28: an identity whose permission set is empty or absent passes
\* requirePermissions for every required list.
C28_EmptyAllowsAll ==
    user_permissions(perm_in.auth_info) = <<>>
       => ~Fails(perm_out.backend) /\ ~Fails(perm_out.root)

(***************************************************************************)
(* The gate.                                                               *)
(***************************************************************************)
\* C29: when a bearer token is supplied and verifies, the gate returns the
\* session identity whatever API-key headers came with it; otherwise, when an
\* API key is supplied and verifies, it returns the API-key identity, also
\* if an invalid bearer token was supplied; and it raises 401 if and only if
\* neither verifies.
C29_SessionFirstThenKey ==
    [][\A authorization \in AuthHeaders, x_api_key \in GateKeyHeaders,
          x_api_secret \in GateSecretHeaders :
          (/\ kret'.op = "verify_session_or_api_key"
           /\ kret'.bearer = authorization
           /\ verify_session_or_api_key(authorization, x_api_key, x_api_secret))
             => LET sessionOk == authorization # None /\ Verifies(authorization[1])
                    keyOk == /\ x_api_key # None
                             /\ VerifyOutcome(x_api_key[1], SecretOrEmpty(x_api_secret),
                                              TRUE).info # None
                IN /\ sessionOk => /\ kret'.status = 200
                                   /\ kret'.kind = "session"
                                   /\ kret'.token = authorization
                                   /\ api_keys' = api_keys
                   /\ (~sessionOk /\ keyOk)
                         => /\ kret'.status = 200
                            /\ kret'.kind = "api_key"
                            /\ kret'.info[1].api_key = x_api_key[1]
                            /\ sessions' = sessions
                   /\ kret'.status = 401 <=> (~sessionOk /\ ~keyOk)]_vars

\* The gate has just returned the API-key identity to a request that also
\* carried the bearer token of an expired session.
C29_Witness ==
    /\ kret.op = "verify_session_or_api_key"
    /\ kret.kind = "api_key"
    /\ kret.bearer # None
    /\ Expired(kret.bearer[1])

\* The caller class of the credential a key names: the api_type it was
\* created with; web for the break-glass key.
CallerClass(x_api_key) ==
    IF x_api_key[1] = BREAK_GLASS_KEY THEN {"web"}
    ELSE {issued[k].api_type : k \in KeyRows(x_api_key[1])}

RowsButLastUsed(keys) ==
    [k \in ApiKeyIds |->
        IF keys[k].state = "row" THEN [keys[k] EXCEPT !.last_used_at = NeverUsed]
        ELSE keys[k]]

\* A route of auth_api.py is called with these headers.
CrudCall(key, s) ==
    \/ api_list_api_keys(key, s)
    \/ \E t \in ApiTypes : api_create_api_key(key, s, "n2", t)
    \/ \E k \in ApiKeyIds, a \in BOOLEAN : api_update_api_key(key, s, k, a)
    \/ \E k \in ApiKeyIds : api_delete_api_key(key, s, k)

\* C30: a request whose caller's class is not in the operation's allowed
\* list is refused (403, or 401 when the credential does not verify) and
\* changes no credential; so list, create, update and delete of credentials,
\* which allow web alone, are refused to a caller whose credential was
\* created as external or internal.
C30_ClassGating ==
    [][\A key \in CallerKeys, s \in CallerSecrets :
          /\ \A allowed \in AllowedLists :
                (/\ api_type_checker(allowed, key, s)
                 /\ CallerClass(key) # {}
                 /\ CallerClass(key) \cap allowed = {})
                   => kret'.status \in {401, 403}
          /\ (/\ CrudCall(key, s)
              /\ CallerClass(key) # {}
              /\ "web" \notin CallerClass(key))
                => /\ kret'.status \in {401, 403}
                   /\ RowsButLastUsed(api_keys') = RowsButLastUsed(api_keys)
                   /\ issued' = issued]_vars

(***************************************************************************)
(* Uniform authentication errors.                                          *)
(***************************************************************************)
AuthDependencies == {"require_api_key", "require_session", "get_current_user"}

AuthFailed(r) == r.op \in AuthDependencies /\ r.outcome = "raise"

ErrorOf(r) == <<r.status, r.detail>>

\* C31: any two failing authentication attempts on one dependency (missing
\* header, unknown key, inactive key, expired key, wrong secret, unknown or
\* expired session token) are answered with the same error, status and
\* detail, so the answer tells neither which check failed nor whether the
\* key or token exists.
C31_FailuresUniform ==
    [][(AuthFailed(kret) /\ AuthFailed(kret') /\ kret'.op = kret.op)
          => ErrorOf(kret') = ErrorOf(kret)]_vars

(***************************************************************************)
(* Command creation.                                                       *)
(***************************************************************************)
CommandIds(rows) == {rows[i].command_id : i \in DOMAIN rows}

\* C32: create for a device that exists and is online inserts exactly one
\* new command owned by that device, pending, with a command id no earlier
\* row has, and leaves the earlier rows alone; create for an unknown device
\* fails with not-found (404) and create for an offline device fails (400),
\* and neither adds a command row.
C32_CreateOnlineOnly ==
    [][\A d \in DeviceIds :
          /\ execute_command(d) =>
                /\ gdevices[d] # NoDevice /\ gdevices[d].status = "online"
                /\ Len(commands') = Len(commands) + 1
                /\ SubSeq(commands', 1, Len(commands)) = commands
                /\ commands'[Len(commands')].device_id = d
                /\ commands'[Len(commands')].status = "pending"
                /\ commands'[Len(commands')].command_id \notin CommandIds(commands)
          /\ (kret'.op = "execute_command" /\ kret'.device_id = d
                /\ execute_command_rejected(d)) =>
                /\ gdevices[d] = NoDevice => kret'.status = 404
                /\ (gdevices[d] # NoDevice /\ gdevices[d].status = "offline")
                      => kret'.status = 400
                /\ commands' = commands]_vars

\* Create was refused for a device swept offline that already owns a
\* command, and the second command was created for the other, online device.
C32_Witness ==
    /\ kret.op = "execute_command"
    /\ kret.status = 400
    /\ gdevices[kret.device_id].status = "offline"
    /\ Len(commands) = 2
    /\ commands[1].device_id = kret.device_id
    /\ commands[2].device_id # kret.device_id
    /\ commands[2].status = "pending"

(***************************************************************************)
(* Disconnection of a pull stream.                                         *)
(***************************************************************************)
Disconnected(s) == streams[s].pc # "closed" /\ ~streams[s].active

\* C33: after the caller of a pull stream has disconnected, the stream polls
\* no more, claims no more (no command goes from pending to running on its
\* behalf) and sends no more, so the commands of its batch that were not
\* yet sent stay pending.
C33_DisconnectNoSideEffects ==
    [][\A s \in StreamIds :
          Disconnected(s) => /\ ~PullQuery(s)
                             /\ ~PullClaim(s)
                             /\ ~PullYield(s)]_vars

(***************************************************************************)
(* The device's token and PSK hash.                                        *)
(***************************************************************************)
\* C34: once a device is registered, every step (re-registration, heartbeat,
\* pull, result report, offline monitor, the clock) leaves its row in place
\* with the same token and the same psk_hash, and a successful
\* re-registration answers with the token the row already had.
C34_TokenWriteOnce ==
    [][\A d \in DeviceIds :
          gdevices[d] # NoDevice =>
             /\ gdevices'[d] # NoDevice
             /\ gdevices'[d].token = gdevices[d].token
             /\ gdevices'[d].psk_hash = gdevices[d].psk_hash
             /\ Register(d, AgentPsk, ReMetadata)
                   => RegisterResponseToken(d) = gdevices[d].token]_vars

\* A device swept offline registered again and still holds the token and
\* PSK hash of its first registration; its command was delivered and
\* reported meanwhile.
C34_Witness ==
    \E d \in DeviceIds :
        /\ gdevices[d] # NoDevice
        /\ gdevices[d].metadata = ReMetadata
        /\ gdevices[d].status = "online"
        /\ gdevices[d].last_seen_at > DEVICE_TIMEOUT
        /\ gdevices[d].token = TokenDraw[d]
        /\ gdevices[d].psk_hash = _hash_psk(AgentPsk)
        /\ Len(commands) = 1
        /\ commands[1].device_id = d
        /\ commands[1].status \in Terminal

(***************************************************************************)
(* Pull streams and terminal commands.                                     *)
(***************************************************************************)
\* C35: no step of a pull stream changes the status of a command that is
\* completed or failed, also when the stream selected the command into its
\* batch while it was pending and reaches it after another stream delivered
\* it and its result was reported.
C35_TerminalNoPullWrites ==
    [][\A s \in StreamIds, i \in DOMAIN commands :
          (commands[i].status \in Terminal /\ PullStep(s))
              => commands'[i].status = commands[i].status]_vars

(***************************************************************************)
(* Refresh and the length of a session.                                    *)
(***************************************************************************)
\* C36: a successful refresh never shortens a session: for every session
\* and every extend_hours refresh_session accepts, the expires_at of the
\* session after the call is at least its expires_at before the call.
C36_RefreshNeverShortens ==
    [][\A tok \in SessionTokens, h \in ExtendHours :
          (/\ sret'.op = "refresh"
           /\ sret'.token = tok
           /\ sret'.ok
           /\ refresh_session(tok, h))
              => sessions'[tok].expires_at >= sessions[tok].expires_at]_vars

(***************************************************************************)
(* Who may report a command's result.                                      *)
(***************************************************************************)
\* C37: ReportResult changes the status or the result fields of a command
\* only when the command's device_id is the device_id that authenticated
\* the report with its token: a device with a valid token of its own
\* changes no command of another device.
C37_ReportOnlyOwnCommands ==
    [][\A d \in DeviceIds, t \in Tokens, c \in DOMAIN commands, r \in ReportInputs :
          (commands'[c] # commands[c] /\ ReportResult(d, t, c, r))
              => commands[c].device_id = d]_vars

(***************************************************************************)
(* Bad credentials on the agent channel.                                   *)
(***************************************************************************)
\* The pair is the device_id and token of a registered device.
RegisteredPair(d, t) == gdevices[d] # NoDevice /\ gdevices[d].token = t

AgentTablesUnchanged ==
    /\ gdevices' = gdevices
    /\ commands' = commands
    /\ streams' = streams
    /\ sent' = sent

\* C38: Heartbeat, PullCommands and ReportResult called with a (device_id,
\* token) pair that matches no registered device, and Register called with
\* a wrong pre-shared key, leave every device and every command unchanged,
\* and such a PullCommands opens no stream and yields no command.
C38_BadCredentialsChangeNothing ==
    [][/\ \A d \in DeviceIds, t \in Tokens :
             ~RegisteredPair(d, t) =>
                /\ (Heartbeat(d, t) \/ HeartbeatInvalidToken(d, t))
                      => AgentTablesUnchanged
                /\ \A s \in AgentStreams :
                      (PullOpen(s, d, t) \/ PullInvalidToken(s, d, t))
                          => AgentTablesUnchanged
                /\ \A c \in 1..MaxBadCommands, r \in ReportInputs :
                      (ReportResult(d, t, c, r) \/ ReportInvalidToken(d, t, c, r))
                          => AgentTablesUnchanged
       /\ \A d \in DeviceIds, psk \in Psks \ {AgentPsk} :
             (Register(d, psk, NoMetadata) \/ RegisterInvalidPsk(d, psk))
                 => AgentTablesUnchanged]_vars

\* A report was refused for a device that is not registered while the
\* registered device's command is still pending and nothing was sent.
C38_Witness ==
    /\ kret.op = "ReportResult"
    /\ kret.success = FALSE
    /\ kret.message = "Invalid token"
    /\ gdevices[kret.device_id] = NoDevice
    /\ Len(commands) = 1
    /\ commands[1].status = "pending"
    /\ NeverReported(commands[1])
    /\ sent[1] = 0

(***************************************************************************)
(* Concurrent heartbeats and the metadata column.                          *)
(***************************************************************************)
\* C39: no metadata update is lost between concurrent heartbeats: the write
\* of a heartbeat that carries metadata keeps every top-level key stored at
\* that moment, the keys included that another heartbeat for the same
\* device wrote after this one had read the row, so that after both have
\* completed the metadata holds the keys written by both.
C39_NoLostMetadataUpdate ==
    [][\A p \in HbProcs :
          (hbs[p].pc = "timed" /\ Truthy(hbs[p].metadata) /\ HbWrite(p))
              => \A i \in RowsWithId(devices, hbs[p].device_id) :
                    DOMAIN devices[i].metadata \subseteq DOMAIN devices'[i].metadata]_vars

(***************************************************************************)
(* Dispatch.                                                               *)
(***************************************************************************)
ConnectedFor(device_id) ==
    \E s \in AgentStreams : streams[s].active /\ streams[s].device_id = device_id

PendingAt(i) == i \in DOMAIN commands /\ commands[i].status = "pending"

Dispatched(i) ==
    i \in DOMAIN commands /\ commands[i].status = "running" /\ sent[i] > 0

\* C40: while a device stays connected on a pull stream that no error ends,
\* every command that is pending for the device is eventually marked
\* running and sent, under weak fairness of the stream's loop, also when
\* more than PULL_LIMIT commands are pending at once and when commands are
\* created between two polls.
C40_DispatchLiveness ==
    \A i \in 1..MaxFairCommands :
        (PendingAt(i) /\ ConnectedFor(commands[i].device_id)) ~> Dispatched(i)

\* The stream holds a full batch of PULL_LIMIT commands while one more
\* command, created before the poll, is pending outside the batch.
C40_Witness ==
    \E s \in AgentStreams :
        /\ streams[s].active
        /\ Len(streams[s].batch) = PULL_LIMIT
        /\ \E i \in DOMAIN commands :
              /\ commands[i].status = "pending"
              /\ commands[i].device_id = streams[s].device_id
              /\ \A k \in DOMAIN streams[s].batch : streams[s].batch[k] # i
              /\ i > streams[s].batch[PULL_LIMIT]

====
